---- MODULE Spec2Model ----
(***************************************************************************)
(* A state-machine model of the docking layout engine of qtpydocking:      *)
(* the DockManager with its dock containers, the splitter tree of every    *)
(* container, the dock areas with their tabbed dock widgets, and the       *)
(* save_state / restore_state round trip of that tree.                     *)
(*                                                                         *)
(* Objects are kept in tables: dock widgets by object name, dock areas and *)
(* containers by an identifier.  Every method of the source is an operator *)
(* over a "heap" record h that holds these tables; h.exc names the Python  *)
(* exception that escaped, and the state at that moment is kept as it is.  *)
(* Widget geometry, splitter sizes, title bars and icons are left out.  A  *)
(* QWidget's isHidden() is modelled by the explicit hide()/show() calls    *)
(* of the source (a widget put into a splitter is not hidden unless it was *)
(* hidden explicitly).                                                     *)
(***************************************************************************)
EXTENDS Integers, Sequences, FiniteSets, TLC

\* ---------------------------------------------------------------- bounds
MaxWidgets == 3          \* dock widgets the application creates
MaxAreas == 6            \* dock area objects alive at one time
MaxFloating == 2         \* floating dock containers alive at one time
MaxVersion == 1          \* version numbers 0..MaxVersion
MaxLayoutAdds == 3       \* Spec: calls of add_dock_widget(_tab)
MaxLayoutToggles == 1    \* Spec: calls of toggle_view
MaxAdds == 2             \* SpecRestore: calls of add_dock_widget(_tab)
MaxToggles == 1          \* SpecRestore: calls of toggle_view
MaxSaves == 1            \* SpecRestore: calls of save_state
MaxRestores == 1         \* SpecRestore: calls of restore_state
MaxNested == 1           \* SpecRestore: nested calls of restore_state
MaxRemoveAdds == 3       \* SpecRemove: calls of add_dock_widget
MaxRemoveToggles == 1    \* SpecRemove: calls of toggle_view
MaxRemoves == 1          \* SpecRemove: calls of remove_dock_widget
MaxFloatAdds == 2        \* SpecFloat: calls of add_dock_widget
MaxFloatToggles == 1     \* SpecFloat: calls of toggle_view
MaxFloats == 1           \* SpecFloat: dock widgets and dock areas made floating
MaxFeatures == 1         \* SpecFloat: calls of set_feature
MaxCloses == 1           \* SpecFloat: close events
MaxPerspectiveAdds == 1  \* SpecPerspectives: calls of add_dock_widget
MaxAddPerspectives == 3  \* SpecPerspectives: calls of add_perspective
MaxRemovePerspectives == 2  \* SpecPerspectives: calls of remove_perspectives
MaxNames == 2            \* SpecPerspectives: names handed to one remove_perspectives
MaxZAdds == 2            \* SpecZOrder: calls of add_dock_widget
MaxZFloats == 2          \* SpecZOrder: dock widgets made floating
MaxEvents == 3           \* SpecZOrder: events delivered to containers
MaxIndex == 3            \* indices -MaxIndex..MaxIndex handed to dock_area(index)
MaxToolBarAdds == 1      \* SpecToolBar: calls of add_dock_widget
MaxToolBarFloats == 1    \* SpecToolBar: dock widgets made floating
MaxToolBars == 1         \* SpecToolBar: calls of set_tool_bar
MaxStyles == 2           \* SpecToolBar: calls of set_tool_bar_style
MaxIconSizes == 1        \* SpecToolBar: calls of set_tool_bar_icon_size
MaxToolBarWidgets == 2   \* SpecToolBar: dock widgets whose tool bar calls are made
MaxDragAdds == 2         \* SpecDrag: calls of add_dock_widget
MaxDragFloats == 2       \* SpecDrag: dock widgets made floating
MaxDragEvents == 1       \* SpecDrag: events delivered to containers
MaxDragCloses == 1       \* SpecDrag: close events
MaxDrags == 1            \* SpecDrag: calls of update_drop_overlays

\* the object names of the dock widgets, in the order of their creation
ObjectNames == <<"w1", "w2", "w3", "w4">>
DockWidgetNames == {ObjectNames[i] : i \in 1..MaxWidgets}

\* ------------------------------------------------------------- constants
NoArea == 0
Manager == 0
NoContainer == -1

AreaIds == 1..MaxAreas
FloatingIds == 1..MaxFloating
ContainerIds == 0..MaxFloating
Versions == 0..MaxVersion

\* enums.DockWidgetArea (the five areas a dock widget can be added to)
DockWidgetArea == {"left", "right", "top", "bottom", "center"}

\* the value v of The({e : x \in {d}}) is e with x bound to the value of d
The(S) == CHOOSE v \in S : TRUE

\* ------------------------------------------------------ python sequences
\* list.index(x), 0-based; -1 stands for "not in the list"
IndexOf(s, x) ==
    IF \E i \in 1..Len(s) : s[i] = x
    THEN (CHOOSE i \in 1..Len(s) : s[i] = x /\ \A j \in 1..(i-1) : s[j] # x) - 1
    ELSE -1

InSeq(s, x) == \E i \in 1..Len(s) : s[i] = x

\* list.insert(i, x) for i >= 0: an index past the end appends
PyInsert(s, i, x) ==
    LET k == IF i > Len(s) THEN Len(s) ELSE i
    IN  SubSeq(s, 1, k) \o <<x>> \o SubSeq(s, k + 1, Len(s))

\* list.remove(x): the first occurrence is taken out
PyRemove(s, x) ==
    LET k == IndexOf(s, x) + 1
    IN  IF k = 0 THEN s ELSE SubSeq(s, 1, k - 1) \o SubSeq(s, k + 1, Len(s))

\* list[i] with python's negative indexing; "" stands for IndexError / None
PyGet(s, i) ==
    IF i >= 0 /\ i < Len(s) THEN s[i + 1]
    ELSE IF i < 0 /\ -i <= Len(s) THEN s[Len(s) + i + 1]
    ELSE ""

SeqToSet(s) == {s[i] : i \in 1..Len(s)}

\* ---------------------------------------------------------- splitter tree
\* A node is a dock area (leaf) or a splitter with an orientation, "H" for
\* Qt.Horizontal and "V" for Qt.Vertical, and its children from first to last.
Leaf(a) == [k |-> "A", id |-> a, o |-> "-", ch |-> <<>>]
Split(o, ch) == [k |-> "S", id |-> NoArea, o |-> o, ch |-> ch]

RECURSIVE TreeAreas(_), ForestAreas(_)
TreeAreas(t) == IF t.k = "A" THEN <<t.id>> ELSE ForestAreas(t.ch)
ForestAreas(ch) ==
    IF ch = <<>> THEN <<>> ELSE TreeAreas(Head(ch)) \o ForestAreas(Tail(ch))

InTree(t, a) == InSeq(TreeAreas(t), a)

\* util.find_parent(QSplitter, area): the splitter that holds the area
RECURSIVE find_parent(_, _)
find_parent(t, a) ==
    IF InSeq(t.ch, Leaf(a)) THEN t
    ELSE LET i == CHOOSE i \in 1..Len(t.ch) : InTree(t.ch[i], a)
         IN  find_parent(t.ch[i], a)

\* an insert_offset that is 0 for appending too
insert_offset_zero(append) == 0

\* enums.DockInsertParam.insert_offset
insert_offset(append) == IF append THEN 1 ELSE 0

\* dock_area_insert_parameters(area): (orientation, append)
dock_area_insert_parameters(area) ==
    CASE area = "top"    -> [o |-> "V", append |-> FALSE]
      [] area = "right"  -> [o |-> "H", append |-> TRUE]
      [] area = "center" -> [o |-> "V", append |-> TRUE]
      [] area = "bottom" -> [o |-> "V", append |-> TRUE]
      [] area = "left"   -> [o |-> "H", append |-> FALSE]
      [] OTHER           -> [o |-> "V", append |-> FALSE]

\* an insert_widget_into_splitter that always appends
insert_widget_into_splitter_append(ch, n, append) == Append(ch, n)

\* insert_widget_into_splitter(splitter, widget, append)
insert_widget_into_splitter(ch, n, append) ==
    IF append THEN Append(ch, n) ELSE <<n>> \o ch

\* ------------------------------------------------------------- features
\* enums.DockWidgetFeature, an IntFlag
closable == 1
movable == 2
floatable == 4
all_features == 7

\* the flags set in the IntFlag value n
Flags(n) == {b \in {closable, movable, floatable} : (n \div b) % 2 = 1}

\* the IntFlag value with the flags S set
FlagValue(S) ==
    (IF closable \in S THEN closable ELSE 0) + (IF movable \in S THEN movable ELSE 0)
        + (IF floatable \in S THEN floatable ELSE 0)

\* x & y, x | y and x & ~y of two IntFlag values
FlagAnd(x, y) == FlagValue(Flags(x) \cap Flags(y))
FlagOr(x, y) == FlagValue(Flags(x) \cup Flags(y))
FlagClear(x, y) == FlagValue(Flags(x) \ Flags(y))

\* ------------------------------------------------------------------ heap
\* DockWidgetPrivate.__init__, DockWidget.__init__: a dock widget just created
NewDockWidget ==
    [closed |-> FALSE, dock_area |-> NoArea, dock_manager |-> FALSE,
     checked |-> FALSE, tab_hidden |-> TRUE, is_floating_top_level |-> FALSE,
     features |-> all_features,
     tool_bar |-> FALSE, iconSize |-> 0, toolButtonStyle |-> "",
     tool_bar_style_docked |-> "ToolButtonIconOnly",
     tool_bar_style_floating |-> "ToolButtonTextUnderIcon",
     tool_bar_icon_size_docked |-> 16, tool_bar_icon_size_floating |-> 24]

\* DockAreaWidget.__init__ with DockAreaLayout.__init__ and
\* DockAreaTabBarPrivate.__init__: an empty dock area
NewDockArea ==
    [widgets |-> <<>>, current_index |-> -1, current_widget |-> "",
     tab_current_index |-> -1, hidden |-> FALSE, currentDockWidget |-> ""]

EmptyCache == [a \in DockWidgetArea |-> NoArea]

\* DockContainerWidgetPrivate.__init__ and create_root_splitter: a container
\* with an empty horizontal root splitter; hidden is the isHidden() of the
\* container's window (the floating widget, or the dock manager itself)
NewContainer ==
    [exists |-> TRUE, dock_areas |-> <<>>, root_splitter |-> Split("H", <<>>),
     last_added_area_cache |-> EmptyCache, hidden |-> TRUE,
     z_order_index |-> 0, dragging_state |-> "inactive",
     drop_container |-> NoContainer]

NoContainerRec == [NewContainer EXCEPT !.exists = FALSE]

Raise(h, e) == [h EXCEPT !.exc = e]
Emit(h, sig, arg) == [h EXCEPT !.emitted = @ \cup {<<sig, arg>>}]

\* the dock areas some object of the heap still refers to
AreasInUse(h) ==
    UNION {SeqToSet(TreeAreas(h.ct[c].root_splitter)) \cup SeqToSet(h.ct[c].dock_areas)
           \cup {h.ct[c].last_added_area_cache[a] : a \in DockWidgetArea}
             : c \in {x \in ContainerIds : h.ct[x].exists}}
    \cup {h.dw[w].dock_area : w \in DockWidgetNames}

FreeAreas(h) == AreaIds \ AreasInUse(h)
FreshArea(h) == CHOOSE a \in FreeAreas(h) : \A b \in FreeAreas(h) : a <= b

FreeContainers(h) == {c \in FloatingIds : ~h.ct[c].exists}
FreshContainer(h) == CHOOSE c \in FreeContainers(h) : \A b \in FreeContainers(h) : c <= b

\* an area nothing refers to any more is garbage: its record is reset
Collect(h) ==
    [h EXCEPT !.areas = [a \in AreaIds |->
                            IF a \in AreasInUse(h) THEN h.areas[a] ELSE NewDockArea],
              !.ct = [c \in ContainerIds |->
                            IF h.ct[c].exists THEN h.ct[c] ELSE NoContainerRec]]

\* DockAreaWidget.dock_container(): the container whose splitter tree holds
\* the area, NoContainer for an area that has no parent
dock_container(h, a) ==
    IF \E c \in ContainerIds : h.ct[c].exists /\ InTree(h.ct[c].root_splitter, a)
    THEN CHOOSE c \in ContainerIds : h.ct[c].exists /\ InTree(h.ct[c].root_splitter, a)
    ELSE NoContainer

\* DockContainerWidget.is_floating()
is_floating(c) == c # Manager

\* DockAreaWidget.opened_dock_widgets()
opened_dock_widgets(h, a) ==
    SelectSeq(h.areas[a].widgets, LAMBDA w : ~h.dw[w].closed)

\* DockContainerWidget.opened_dock_areas()
opened_dock_areas(h, c) ==
    SelectSeq(h.ct[c].dock_areas, LAMBDA a : ~h.areas[a].hidden)

\* DockContainerWidget.top_level_dock_area()
top_level_dock_area(h, c) ==
    IF ~is_floating(c) THEN NoArea
    ELSE The({IF Len(areas) # 1 THEN NoArea ELSE areas[1] :
              areas \in {opened_dock_areas(h, c)}})

\* a top_level_dock_widget that takes the first open dock widget of the top
\* level dock area, whether there are more or not
top_level_dock_widget_first(h, c) ==
    The({IF a = NoArea THEN ""
         ELSE The({IF Len(ws) = 0 THEN "" ELSE ws[1] : ws \in {opened_dock_widgets(h, a)}}) :
         a \in {top_level_dock_area(h, c)}})

\* DockContainerWidget.top_level_dock_widget(); "" is None
top_level_dock_widget(h, c) ==
    The({IF a = NoArea THEN ""
         ELSE The({IF Len(ws) # 1 THEN "" ELSE ws[1] : ws \in {opened_dock_widgets(h, a)}}) :
         a \in {top_level_dock_area(h, c)}})

\* DockAreaWidget.current_dock_widget(); "" is None
current_dock_widget(h, a) ==
    IF h.areas[a].current_index < 0 THEN ""
    ELSE PyGet(h.areas[a].widgets, h.areas[a].current_index)

\* DockAreaWidget.index_of_first_open_dock_widget()
index_of_first_open_dock_widget(h, a) ==
    LET ws == h.areas[a].widgets
    IN  IF \E i \in 1..Len(ws) : ~h.dw[ws[i]].closed
        THEN (CHOOSE i \in 1..Len(ws) :
                ~h.dw[ws[i]].closed /\ \A j \in 1..(i-1) : h.dw[ws[j]].closed) - 1
        ELSE -1

\* ------------------------------------------------------- DockAreaLayout
\* DockAreaLayout.set_current_index(index) on the record A of a dock area
layout_set_current_index(A, index) ==
    LET prev == A.current_widget
        next == PyGet(A.widgets, index)
    IN  IF next = "" \/ (next = prev /\ A.current_widget = "") THEN A
        ELSE [A EXCEPT !.current_index = index, !.current_widget = next]

\* DockAreaLayout.insert_widget(index, widget)
layout_insert_widget(A, index, w) ==
    The({The({IF A.current_index < 0 THEN layout_set_current_index(A1, idx)
              ELSE IF idx <= A.current_index THEN [A1 EXCEPT !.current_index = @ + 1]
              ELSE A1 :
              A1 \in {[A EXCEPT !.widgets = PyInsert(@, idx, w)]}}) :
         idx \in {IF index < 0 THEN Len(A.widgets) ELSE index}})

\* DockAreaLayout.remove_widget(widget); list.remove raises ValueError
layout_remove_widget(h, a, w) ==
    The({IF ~InSeq(h.areas[a].widgets, w) THEN Raise(h1, "ValueError")
         ELSE [h1 EXCEPT !.areas[a].widgets = PyRemove(@, w)] :
         h1 \in {IF h.areas[a].current_widget = w
                 THEN [h EXCEPT !.areas[a].current_widget = "",
                                !.areas[a].current_index = -1]
                 ELSE h}})

\* ------------------------------------------------------- DockAreaTabBar
\* DockAreaTabBarPrivate.update_tabs(): the current tab is shown
update_tabs(h, a) ==
    LET A == h.areas[a]
    IN  IF A.tab_current_index >= 0 /\ A.tab_current_index < Len(A.widgets)
        THEN [h EXCEPT !.dw[A.widgets[A.tab_current_index + 1]].tab_hidden = FALSE]
        ELSE h

\* DockAreaTabBar.set_current_index(index)
tab_set_current_index(h, a, index) ==
    IF index = h.areas[a].tab_current_index THEN h
    ELSE IF index < -1 \/ index > Len(h.areas[a].widgets) - 1 THEN h
    ELSE update_tabs([h EXCEPT !.areas[a].tab_current_index = index], a)

\* DockAreaTabBar.current_tab(); "" is None
current_tab(h, a) ==
    IF h.areas[a].tab_current_index < 0 THEN ""
    ELSE h.areas[a].widgets[h.areas[a].tab_current_index + 1]

\* an insert_tab that leaves the current index alone
insert_tab_keep_index(h, a, index) == h

\* DockAreaTabBar.insert_tab(index, tab), the tab being in the layout already
insert_tab(h, a, index) ==
    IF index <= h.areas[a].tab_current_index
    THEN tab_set_current_index(h, a, h.areas[a].tab_current_index + 1)
    ELSE h

\* the new current index DockAreaTabBar.remove_tab computes; tabs are the
\* tabs before the removal
remove_tab_new_index(h, tabs, cur, w) ==
    LET count == Len(tabs)
        ri    == IndexOf(tabs, w)
        n0    == IF count = 1 THEN -1 ELSE cur
        vis(i) == ~h.dw[tabs[i + 1]].tab_hidden
        right == {i \in (ri + 1)..(count - 1) : i >= 0 /\ vis(i)}
        left  == {i \in 0..(ri - 1) : vis(i)}
        least(S) == CHOOSE i \in S : \A j \in S : i <= j
        most(S)  == CHOOSE i \in S : \A j \in S : i >= j
    IN  IF n0 > ri THEN n0 - 1
        ELSE IF n0 = ri
             THEN IF right # {} THEN least(right) - 1
                  ELSE IF left # {} THEN most(left)
                  ELSE -1
        ELSE n0

\* DockAreaTabBar.remove_tab(tab), the widget list of the area being the
\* tab list after the removal
remove_tab(h, a, tabs, w) ==
    IF Len(tabs) = 0 THEN h
    ELSE The({IF n # h.areas[a].tab_current_index
              THEN tab_set_current_index(h, a, n)
              ELSE update_tabs(h, a) :
              n \in {remove_tab_new_index(h, tabs, h.areas[a].tab_current_index, w)}})

\* ------------------------------------------------------- DockAreaWidget
\* DockAreaWidget.set_current_index(index)
set_current_index(h, a, index) ==
    IF index < 0 \/ index > Len(h.areas[a].widgets) - 1 THEN h
    ELSE [tab_set_current_index(h, a, index)
              EXCEPT !.areas[a] = layout_set_current_index(@, index)]

\* DockAreaWidget.internal_set_current_dock_widget(dock_widget);
\* DockAreaLayout.index_of raises ValueError for a widget not in the area
internal_set_current_dock_widget(h, a, w) ==
    IF ~InSeq(h.areas[a].widgets, w) THEN Raise(h, "ValueError")
    ELSE set_current_index(h, a, IndexOf(h.areas[a].widgets, w))

\* DockAreaWidget.set_current_dock_widget(dock_widget)
set_current_dock_widget(h, a, w) ==
    IF h.restoring_state THEN h ELSE internal_set_current_dock_widget(h, a, w)

\* DockWidget.set_dock_area(dock_area)
set_dock_area(h, w, a) ==
    [h EXCEPT !.dw[w].dock_area = a,
              !.dw[w].checked = (a # NoArea /\ ~h.dw[w].closed)]

\* DockAreaWidget.insert_dock_widget(index, dock_widget, activate)
insert_dock_widget(h, a, index, w, activate) ==
    The({set_dock_area(IF activate THEN set_current_index(h3, a, index) ELSE h3, w, a) :
         h3 \in {[insert_tab([h EXCEPT !.areas[a] = layout_insert_widget(@, index, w)],
                             a, index)
                    EXCEPT !.dw[w].tab_hidden = h.dw[w].closed]}})

\* DockAreaWidget.add_dock_widget(dock_widget)
area_add_dock_widget(h, a, w) ==
    insert_dock_widget(h, a, Len(h.areas[a].widgets), w, TRUE)

\* DockAreaWidget.next_open_dock_widget(dock_widget): [exc, w], w = "" for
\* None; list.index raises ValueError for a widget that is not open
next_open_dock_widget(h, a, w) ==
    The({IF Len(open) > 1 \/ (Len(open) = 1 /\ open[1] # w)
         THEN IF open[Len(open)] = w THEN [exc |-> "", w |-> open[Len(open) - 1]]
              ELSE IF ~InSeq(open, w) THEN [exc |-> "ValueError", w |-> ""]
              ELSE [exc |-> "", w |-> open[IndexOf(open, w) + 2]]
         ELSE [exc |-> "", w |-> ""] :
         open \in {opened_dock_widgets(h, a)}})

\* FloatingDockContainer.update_window_title(): the current dock widget of
\* the top level dock area is dereferenced
update_window_title(h, c) ==
    The({IF a # NoArea /\ current_dock_widget(h, a) = ""
         THEN Raise(h, "AttributeError") ELSE h :
         a \in {top_level_dock_area(h, c)}})

\* DockWidget.set_toolbar_floating_style(floating): tool_bar says that the
\* dock widget has a tool bar, iconSize and toolButtonStyle are the tool bar's
set_toolbar_floating_style(h, w, floating) ==
    IF ~h.dw[w].tool_bar THEN h
    ELSE [h EXCEPT !.dw[w].iconSize =
                       IF floating THEN h.dw[w].tool_bar_icon_size_floating
                       ELSE h.dw[w].tool_bar_icon_size_docked,
                   !.dw[w].toolButtonStyle =
                       IF floating THEN h.dw[w].tool_bar_style_floating
                       ELSE h.dw[w].tool_bar_style_docked]

\* DockWidget.emit_top_level_changed(floating); set_tool_bar connects
\* top_level_changed to set_toolbar_floating_style
emit_top_level_changed(h, w, floating) ==
    IF floating = h.dw[w].is_floating_top_level THEN h
    ELSE set_toolbar_floating_style(
             Emit([h EXCEPT !.dw[w].is_floating_top_level = floating],
                  IF floating THEN "top_level_changed(True)"
                  ELSE "top_level_changed(False)", w),
             w, floating)

\* util.emit_top_level_event_for_widget(widget, floating): the dock area of
\* the widget is dereferenced
emit_top_level_event_for_widget(h, w, floating) ==
    IF w = "" THEN h
    ELSE IF h.dw[w].dock_area = NoArea THEN Raise(h, "AttributeError")
    ELSE emit_top_level_changed(h, w, floating)

\* FloatingDockContainer.on_dock_areas_added_or_removed(), the slot of the
\* container's dock_areas_added and dock_areas_removed signals
on_dock_areas_added_or_removed(h, c) ==
    IF is_floating(c) THEN update_window_title(h, c) ELSE h

\* ---------------------------------------------- removing a dock area
Gone == [k |-> "G", id |-> NoArea, o |-> "-", ch |-> <<>>]

\* what is left of the splitter that held the removed area, seen from the
\* splitter above it: its only child takes its place, an empty one goes
Collapse(s) ==
    IF Len(s.ch) = 0 THEN Gone ELSE IF Len(s.ch) = 1 THEN s.ch[1] ELSE s

DropAt(s, i) == SubSeq(s, 1, i - 1) \o SubSeq(s, i + 1, Len(s))

\* the splitter tree t without the area a
RECURSIVE Prune(_, _)
Prune(t, a) ==
    IF InSeq(t.ch, Leaf(a)) THEN Split(t.o, PyRemove(t.ch, Leaf(a)))
    ELSE The({The({IF sub.k = "G" THEN Split(t.o, DropAt(t.ch, i))
                   ELSE Split(t.o, [t.ch EXCEPT ![i] = sub]) :
                   sub \in {IF InSeq(t.ch[i].ch, Leaf(a))
                            THEN Collapse(Prune(t.ch[i], a))
                            ELSE Prune(t.ch[i], a)}}) :
              i \in {CHOOSE j \in 1..Len(t.ch) : InTree(t.ch[j], a)}})

\* DockContainerWidget.remove_dock_area(area) of container c
remove_dock_area(h, c, a) ==
    IF ~InSeq(h.ct[c].dock_areas, a) THEN h
    ELSE The({
        IF tc = NoContainer THEN Raise(h1, "AttributeError")
        ELSE The({
            IF direct /\ tc # c /\ Len(pruned.ch) = 1
            THEN Raise([h1 EXCEPT !.ct[tc].root_splitter = pruned], "AttributeError")
            ELSE The({
                The({IF h3.exc # "" THEN h3 ELSE on_dock_areas_added_or_removed(h3, c) :
                     h3 \in {emit_top_level_event_for_widget(
                                 h2, top_level_dock_widget(h2, c), TRUE)}}) :
                h2 \in {[h1 EXCEPT !.ct[tc].root_splitter =
                            IF direct /\ tc = c /\ Len(pruned.ch) = 1
                                      /\ pruned.ch[1].k = "S"
                            THEN pruned.ch[1] ELSE pruned]}}) :
            direct \in {InSeq(h.ct[tc].root_splitter.ch, Leaf(a))},
            pruned \in {Prune(h.ct[tc].root_splitter, a)}}) :
        h1 \in {[h EXCEPT !.ct[c].dock_areas = PyRemove(@, a), !.areas[a].hidden = TRUE]},
        tc \in {dock_container(h, a)}})

\* ------------------------------------------ closing and opening widgets
RECURSIVE floating_hide(_, _)

\* DockAreaWidget.hide_area_with_no_visible_content()
hide_area_with_no_visible_content(h, a) ==
    The({
        IF c = NoContainer THEN Raise(h1, "AttributeError")
        ELSE IF ~is_floating(c) THEN h1
        ELSE The({
            IF top # ""
            THEN The({IF h2.exc # "" THEN h2
                         ELSE emit_top_level_event_for_widget(h2, top, TRUE) :
                      h2 \in {update_window_title(h1, c)}})
            ELSE IF Len(opened_dock_areas(h1, c)) = 0 THEN floating_hide(h1, c)
            ELSE h1 :
            top \in {top_level_dock_widget(h1, c)}}) :
        h1 \in {[h EXCEPT !.areas[a].hidden = TRUE]},
        c \in {dock_container(h, a)}})

\* DockWidgetPrivate.update_parent_dock_area()
update_parent_dock_area(h, w) ==
    IF h.dw[w].dock_area = NoArea THEN h
    ELSE The({IF n.exc # "" THEN Raise(h, n.exc)
              ELSE IF n.w # "" THEN set_current_dock_widget(h, h.dw[w].dock_area, n.w)
              ELSE hide_area_with_no_visible_content(h, h.dw[w].dock_area) :
              n \in {next_open_dock_widget(h, h.dw[w].dock_area, w)}})

\* DockWidgetPrivate.hide_dock_widget()
hide_dock_widget(h, w) ==
    update_parent_dock_area([h EXCEPT !.dw[w].tab_hidden = TRUE], w)

\* DockAreaWidget.remove_dock_widget(dock_widget)
area_remove_dock_widget(h, a, w) ==
    The({
        IF n.exc # "" THEN Raise(h, n.exc)
        ELSE The({
            IF h1.exc # "" THEN h1
            ELSE The({
                The({
                    The({IF h3.exc # "" THEN h3
                         ELSE IF dc = NoContainer THEN Raise(h3, "AttributeError")
                         ELSE The({IF top = "" THEN h3
                                   ELSE emit_top_level_changed(h3, top, TRUE) :
                                   top \in {top_level_dock_widget(h3, dc)}}) :
                         h3 \in {IF n.w # "" THEN set_current_dock_widget(h2, a, n.w)
                                 ELSE IF Len(h2.areas[a].widgets) = 0 /\ dc = NoContainer
                                      THEN Raise(h2, "AttributeError")
                                 ELSE IF Len(h2.areas[a].widgets) = 0
                                         /\ Len(h2.ct[dc].dock_areas) > 1
                                      THEN remove_dock_area(h2, dc, a)
                                 ELSE hide_area_with_no_visible_content(h2, a)}}) :
                    dc \in {dock_container(h2, a)}}) :
                h2 \in {remove_tab([h1 EXCEPT !.dw[w].tab_hidden = TRUE], a,
                                   h.areas[a].widgets, w)}}) :
            h1 \in {layout_remove_widget(h, a, w)}}) :
        n \in {next_open_dock_widget(h, a, w)}})

\* ------------------------------------------------- adding dock widgets
\* the tree t with the new area put beside the target area: into the
\* target's splitter if that has the wanted orientation, and otherwise into
\* a new splitter that takes the target's place
RECURSIVE InsertBeside(_, _, _, _)
InsertBeside(t, target, new, param) ==
    IF t.k = "A" THEN t
    ELSE IF InSeq(t.ch, Leaf(target))
    THEN LET index == IndexOf(t.ch, Leaf(target))
         IN  IF t.o = param.o
             THEN Split(t.o, PyInsert(t.ch, index + insert_offset(param.append), Leaf(new)))
             ELSE Split(t.o, [t.ch EXCEPT ![index + 1] =
                     Split(param.o, insert_widget_into_splitter(
                                        <<Leaf(target)>>, Leaf(new), param.append))])
    ELSE Split(t.o, [i \in 1..Len(t.ch) |-> InsertBeside(t.ch[i], target, new, param)])

\* DockContainerWidgetPrivate.append_dock_areas and emit_dock_areas_added
append_dock_areas(h, c, a) ==
    on_dock_areas_added_or_removed([h EXCEPT !.ct[c].dock_areas = Append(@, a)], c)

\* DockContainerWidgetPrivate.dock_widget_into_dock_area(area, dock_widget,
\* target_dock_area) of container c
dock_widget_into_dock_area(h, c, area, w, target) ==
    IF area = "center" THEN area_add_dock_widget(h, target, w)
    ELSE IF FreeAreas(h) = {} THEN Raise(h, "BOUND")
    ELSE The({
        The({
            The({IF tc = NoContainer THEN Raise(h1, "AttributeError")
                 ELSE append_dock_areas(
                          [h1 EXCEPT !.ct[tc].root_splitter =
                              InsertBeside(@, target, a, dock_area_insert_parameters(area))],
                          c, a) :
                 tc \in {dock_container(h1, target)}}) :
            h1 \in {area_add_dock_widget([h EXCEPT !.areas[a] = NewDockArea], a, w)}}) :
        a \in {FreshArea(h)}})

\* DockContainerWidgetPrivate.add_dock_area(new_dock_area, area)
add_dock_area(h, c, a, area) ==
    The({
        The({append_dock_areas(
                 [h EXCEPT !.ct[c].root_splitter =
                     Split(param.o,
                           insert_widget_into_splitter(
                               IF root.o = param.o THEN root.ch ELSE <<root>>,
                               Leaf(a), param.append))],
                 c, a) :
             root \in {IF Len(h.ct[c].dock_areas) <= 1
                       THEN Split(param.o, h.ct[c].root_splitter.ch)
                       ELSE h.ct[c].root_splitter}}) :
        param \in {dock_area_insert_parameters(area)}})

\* DockContainerWidgetPrivate.dock_widget_into_container(area, dockwidget)
dock_widget_into_container(h, c, area, w) ==
    IF FreeAreas(h) = {} THEN Raise(h, "BOUND")
    ELSE The({
        The({IF h2.exc # "" THEN h2
             ELSE [h2 EXCEPT !.ct[c].last_added_area_cache[area] = a] :
             h2 \in {add_dock_area(
                         area_add_dock_widget([h EXCEPT !.areas[a] = NewDockArea], a, w),
                         c, a, area)}}) :
        a \in {FreshArea(h)}})

\* DockContainerWidget.add_dock_widget(area, dockwidget, dock_area_widget)
\* of container c; target = NoArea when no dock area widget is given
container_add_dock_widget(h, c, area, w, target) ==
    The({IF h1.exc # "" THEN h1
         ELSE IF target # NoArea
              THEN dock_widget_into_dock_area([h1 EXCEPT !.dw[w].dock_manager = TRUE],
                                              c, area, w, target)
         ELSE dock_widget_into_container([h1 EXCEPT !.dw[w].dock_manager = TRUE],
                                         c, area, w) :
         h1 \in {IF h.dw[w].dock_area # NoArea
                 THEN area_remove_dock_widget(h, h.dw[w].dock_area, w)
                 ELSE h}})

\* a FloatingDockContainer.__init__ that does not register the floating widget
floating_dock_container_unregistered(h, w) ==
    IF ~h.dw[w].dock_manager THEN Raise(h, "ValueError")
    ELSE IF FreeContainers(h) = {} THEN Raise(h, "BOUND")
    ELSE The({container_add_dock_widget(
                  [h EXCEPT !.ct[c] = NewContainer, !.containers = Append(@, c)],
                  c, "center", w, NoArea) :
              c \in {FreshContainer(h)}})

\* FloatingDockContainer.__init__(dock_widget=w) with DockContainerWidget.__init__,
\* DockManager.register_dock_container and register_floating_widget
floating_dock_container(h, w) ==
    IF ~h.dw[w].dock_manager THEN Raise(h, "ValueError")
    ELSE IF FreeContainers(h) = {} THEN Raise(h, "BOUND")
    ELSE The({container_add_dock_widget(
                  [h EXCEPT !.ct[c] = NewContainer,
                            !.containers = Append(@, c),
                            !.floating_widgets = Append(@, c)],
                  c, "center", w, NoArea) :
              c \in {FreshContainer(h)}})

\* an event handler that hands out the counter without counting up
event_keep_counter(h, c, e) ==
    IF e = "WindowActivate" \/ (e = "Show" /\ h.ct[c].z_order_index = 0)
    THEN [h EXCEPT !.ct[c].z_order_index = h.z_order_counter + 1]
    ELSE h

\* DockContainerWidget.event(e) of the container c for an event of type e
event(h, c, e) ==
    IF e = "WindowActivate" \/ (e = "Show" /\ h.ct[c].z_order_index = 0)
    THEN [h EXCEPT !.z_order_counter = @ + 1,
                   !.ct[c].z_order_index = h.z_order_counter + 1]
    ELSE h

\* DockContainerWidget.z_order_index(), which DockManager overrides
z_order_index(h, c) == IF c = Manager THEN 0 ELSE h.ct[c].z_order_index

\* DockContainerWidget.is_in_front_of(other)
is_in_front_of(h, c, other) == z_order_index(h, c) > z_order_index(h, other)

\* QWidget.show() of the window of the container c: a window that was hidden
\* delivers a show event to the container
show(h, c) ==
    IF h.ct[c].hidden THEN event([h EXCEPT !.ct[c].hidden = FALSE], c, "Show") ELSE h

\* DockWidgetPrivate.show_dock_widget()
show_dock_widget(h, w) ==
    IF h.dw[w].dock_area = NoArea
    THEN The({IF h1.exc # "" THEN h1
              ELSE show(h1, dock_container(h1, h1.dw[w].dock_area)) :
              h1 \in {floating_dock_container(h, w)}})
    ELSE The({
        IF h1.exc # "" THEN h1
        ELSE The({IF c = NoContainer
                  THEN Raise([h1 EXCEPT !.dw[w].tab_hidden = FALSE], "AttributeError")
                  ELSE IF is_floating(c)
                  THEN show([h1 EXCEPT !.dw[w].tab_hidden = FALSE], c)
                  ELSE [h1 EXCEPT !.dw[w].tab_hidden = FALSE] :
                  c \in {dock_container(h1, a)}}) :
        a \in {h.dw[w].dock_area},
        h1 \in {set_current_dock_widget(
                    [h EXCEPT !.areas[h.dw[w].dock_area].hidden = FALSE],
                    h.dw[w].dock_area, w)}})

\* DockWidget.dock_container()
widget_dock_container(h, w) ==
    IF h.dw[w].dock_area = NoArea THEN NoContainer
    ELSE dock_container(h, h.dw[w].dock_area)

\* DockWidget.is_in_floating_container()
is_in_floating_container(h, w) ==
    The({c # NoContainer /\ is_floating(c) : c \in {widget_dock_container(h, w)}})

\* DockWidget.is_floating()
dock_widget_is_floating(h, w) ==
    IF ~is_in_floating_container(h, w) THEN FALSE
    ELSE top_level_dock_widget(h, widget_dock_container(h, w)) = w

\* DockContainerWidget.add_dock_area(dock_area_widget, area) of container c:
\* the area leaves the container it is in; setParent(None) hides it until
\* the new splitter shows it again, unless it was hidden explicitly
container_add_dock_area(h, c, a, area) ==
    The({IF h1.exc # "" THEN h1
         ELSE add_dock_area([h1 EXCEPT !.areas[a].hidden = h.areas[a].hidden], c, a, area) :
         h1 \in {The({IF old # NoContainer /\ old # c THEN remove_dock_area(h, old, a)
                      ELSE h :
                      old \in {dock_container(h, a)}})}})

\* FloatingDockContainer.__init__(dock_area=a); a dock area has a dock manager
floating_dock_container_of_area(h, a) ==
    IF FreeContainers(h) = {} THEN Raise(h, "BOUND")
    ELSE The({container_add_dock_area(
                  [h EXCEPT !.ct[c] = NewContainer,
                            !.containers = Append(@, c),
                            !.floating_widgets = Append(@, c)],
                  c, a, "center") :
              c \in {FreshContainer(h)}})

\* FloatingDockContainer.start_floating(pos, size, drag_state), which
\* start_dragging and init_floating_geometry call
floating_start_floating(h, c, drag_state) ==
    show([h EXCEPT !.ct[c].dragging_state = drag_state], c)

\* DockWidgetTabPrivate.start_floating(dragging_state) of the tab of w
tab_start_floating(h, w, dragging_state) ==
    The({
        IF c = NoContainer THEN h
        ELSE IF is_floating(c) /\ Len(opened_dock_areas(h, c)) = 1
                /\ Len(h.areas[a].widgets) = 1
        THEN h
        ELSE IF FreeContainers(h) = {} THEN Raise(h, "BOUND")
        ELSE The({
            IF h1.exc # "" THEN h1
            ELSE emit_top_level_changed(
                     floating_start_floating(h1, new, dragging_state), w, TRUE) :
            new \in {FreshContainer(h)},
            h1 \in {IF Len(h.areas[a].widgets) > 1 THEN floating_dock_container(h, w)
                    ELSE floating_dock_container_of_area(h, a)}}) :
        c \in {widget_dock_container(h, w)},
        a \in {h.dw[w].dock_area}})

\* DockAreaTabBar.make_area_floating(offset, drag_state) of the dock area a
make_area_floating(h, a, drag_state) ==
    IF FreeContainers(h) = {} THEN Raise(h, "BOUND")
    ELSE The({
        IF h1.exc # "" THEN h1
        ELSE The({
            The({IF top = "" THEN h2 ELSE emit_top_level_changed(h2, top, TRUE) :
                 top \in {top_level_dock_widget(h2, new)}}) :
            h2 \in {floating_start_floating(h1, new, drag_state)}}) :
        new \in {FreshContainer(h)},
        h1 \in {floating_dock_container_of_area(h, a)}})

\* DockWidget.set_tool_bar(tool_bar) with a tool bar of the given icon size
\* and tool button style
set_tool_bar(h, w, size, style) ==
    The({set_toolbar_floating_style(h1, w, dock_widget_is_floating(h1, w)) :
         h1 \in {[h EXCEPT !.dw[w].tool_bar = TRUE, !.dw[w].iconSize = size,
                           !.dw[w].toolButtonStyle = style]}})

\* a set_tool_bar_style that sets the style of every state
set_tool_bar_style_every_state(h, w, style, state) ==
    The({set_toolbar_floating_style(h1, w, dock_widget_is_floating(h1, w)) :
         h1 \in {[h EXCEPT !.dw[w].tool_bar_style_floating = style,
                           !.dw[w].tool_bar_style_docked = style]}})

\* DockWidget.set_tool_bar_style(style, state)
set_tool_bar_style(h, w, style, state) ==
    The({set_toolbar_floating_style(h1, w, dock_widget_is_floating(h1, w)) :
         h1 \in {IF state = "floating"
                 THEN [h EXCEPT !.dw[w].tool_bar_style_floating = style]
                 ELSE [h EXCEPT !.dw[w].tool_bar_style_docked = style]}})

\* DockWidget.tool_bar_style(state)
tool_bar_style(h, w, state) ==
    IF state = "floating" THEN h.dw[w].tool_bar_style_floating
    ELSE h.dw[w].tool_bar_style_docked

\* DockWidget.set_tool_bar_icon_size(icon_size, state)
set_tool_bar_icon_size(h, w, icon_size, state) ==
    The({set_toolbar_floating_style(h1, w, dock_widget_is_floating(h1, w)) :
         h1 \in {IF state = "floating"
                 THEN [h EXCEPT !.dw[w].tool_bar_icon_size_floating = icon_size]
                 ELSE [h EXCEPT !.dw[w].tool_bar_icon_size_docked = icon_size]}})

\* DockWidget.tool_bar_icon_size(state)
tool_bar_icon_size(h, w, state) ==
    IF state = "floating" THEN h.dw[w].tool_bar_icon_size_floating
    ELSE h.dw[w].tool_bar_icon_size_docked

\* DockWidget.set_feature(flag, on)
set_feature(h, w, flag, on) ==
    [h EXCEPT !.dw[w].features = IF on THEN FlagOr(@, flag) ELSE FlagClear(@, flag)]

\* DockAreaWidget.features(), over the dock widgets ws of the area
RECURSIVE area_features(_, _)
area_features(h, ws) ==
    IF ws = <<>> THEN all_features
    ELSE FlagAnd(h.dw[Head(ws)].features, area_features(h, Tail(ws)))

\* DockContainerWidget.features(), over the dock areas as of the container
RECURSIVE container_features(_, _)
container_features(h, as) ==
    IF as = <<>> THEN all_features
    ELSE FlagAnd(area_features(h, h.areas[Head(as)].widgets), container_features(h, Tail(as)))

\* DockAreaTabBar.mouseDoubleClickEvent(event) on the tab bar of the area a
mouse_double_click_event(h, a) ==
    The({IF c = NoContainer THEN Raise(h, "AttributeError")
         ELSE IF is_floating(c) /\ Len(h.ct[c].dock_areas) = 1 THEN h
         ELSE IF floatable \notin Flags(area_features(h, h.areas[a].widgets)) THEN h
         ELSE make_area_floating(h, a, "inactive") :
         c \in {dock_container(h, a)}})

\* FloatingDockContainer.is_closable()
is_closable(h, c) == closable \in Flags(container_features(h, h.ct[c].dock_areas))

\* DockWidget.toggle_view_internal(open_)
toggle_view_internal(h, w, open) ==
    The({
        IF h1.exc # "" THEN h1
        ELSE The({
            IF h3.exc # "" THEN h3
            ELSE The({
                The({
                    IF h4.exc # "" THEN h4
                    ELSE The({
                        IF h5.exc # "" THEN h5
                        ELSE Emit(IF open THEN h5 ELSE Emit(h5, "closed", w),
                                  IF open THEN "view_toggled(True)"
                                  ELSE "view_toggled(False)", w) :
                        h5 \in {IF c = NoContainer \/ ~is_floating(c) THEN h4
                                ELSE update_window_title(h4, c)}}) :
                    h4 \in {IF c = NoContainer THEN h3
                            ELSE emit_top_level_event_for_widget(
                                     h3, top_level_dock_widget(h3, c), TRUE)}}) :
                c \in {widget_dock_container(h3, w)}}) :
            h3 \in {IF open
                    THEN emit_top_level_event_for_widget(
                             [h1 EXCEPT !.dw[w].closed = ~open, !.dw[w].checked = open],
                             before, FALSE)
                    ELSE [h1 EXCEPT !.dw[w].closed = ~open, !.dw[w].checked = open]}}) :
        before \in {The({IF c = NoContainer THEN "" ELSE top_level_dock_widget(h, c) :
                         c \in {widget_dock_container(h, w)}})},
        h1 \in {IF open THEN show_dock_widget(h, w) ELSE hide_dock_widget(h, w)}})

\* a toggle_view that does not look at the state of the dock widget
toggle_view_always(h, w, open) == toggle_view_internal(h, w, open)

\* DockWidget.toggle_view(open_)
toggle_view(h, w, open) ==
    IF h.dw[w].closed # (~open) THEN toggle_view_internal(h, w, open)
    ELSE IF open /\ h.dw[w].dock_area # NoArea
         THEN set_current_dock_widget(h, h.dw[w].dock_area, w)
    ELSE h

\* the loop of FloatingDockContainer.hideEvent over the dock widgets ws
RECURSIVE hide_event_widgets(_, _)
hide_event_widgets(h, ws) ==
    IF ws = <<>> \/ h.exc # "" THEN h
    ELSE hide_event_widgets(toggle_view(h, Head(ws), FALSE), Tail(ws))

\* the loop of FloatingDockContainer.hideEvent over the dock areas as
RECURSIVE hide_event_areas(_, _)
hide_event_areas(h, as) ==
    IF as = <<>> \/ h.exc # "" THEN h
    ELSE hide_event_areas(hide_event_widgets(h, opened_dock_widgets(h, Head(as))), Tail(as))

\* FloatingDockContainer.hide() with hideEvent: a visible floating widget
\* closes every open dock widget of its container
floating_hide(h, c) ==
    IF h.ct[c].hidden THEN h
    ELSE hide_event_areas([h EXCEPT !.ct[c].hidden = TRUE], opened_dock_areas(h, c))

\* a closeEvent that does not ask whether the floating widget is closable
close_event_always(h, c) ==
    floating_hide([h EXCEPT !.ct[c].dragging_state = "inactive"], c)

\* FloatingDockContainer.closeEvent(event): an accepted close event hides
\* the window, as the hide() of the other branch does
close_event(h, c) ==
    IF ~is_closable(h, c) THEN [h EXCEPT !.ct[c].dragging_state = "inactive"]
    ELSE floating_hide([h EXCEPT !.ct[c].dragging_state = "inactive"], c)

\* ---------------------------------------------------------- DockOverlay
\* enums.DockWidgetArea as sets of areas: no_area (invalid), outer_dock_areas
\* and all_dock_areas; "invalid" is the area a function returns for no area
no_area == {}
outer_dock_areas == {"top", "left", "right", "bottom"}
all_dock_areas == outer_dock_areas \cup {"center"}

\* DockOverlayPrivate.__init__ and DockOverlay.__init__: an overlay that is
\* not shown; NoContainer is the target widget None
NewOverlay ==
    [allowed_areas |-> no_area, target_widget |-> NoContainer, hidden |-> TRUE,
     last_location |-> "invalid", drop_preview_enabled |-> TRUE]

\* DockOverlay.set_allowed_areas(areas) of the overlay o
set_allowed_areas(o, areas) == [o EXCEPT !.allowed_areas = areas]

\* DockOverlay.show_overlay(target) of the overlay o; da is the area that
\* drop_area_under_cursor() returns
show_overlay(o, target, da) ==
    IF o.target_widget = target THEN [o EXCEPT !.last_location = da]
    ELSE [o EXCEPT !.target_widget = target, !.hidden = FALSE,
                   !.last_location = "invalid"]

\* DockOverlay.hide_overlay()
hide_overlay(o) ==
    [o EXCEPT !.hidden = TRUE, !.target_widget = NoContainer,
              !.last_location = "invalid"]

\* DockOverlay.enable_drop_preview(enable)
enable_drop_preview(o, enable) == [o EXCEPT !.drop_preview_enabled = enable]

\* DockContainerWidget.visible_dock_area_count()
visible_dock_area_count(h, c) == Len(opened_dock_areas(h, c))

RECURSIVE top_container_loop(_, _, _, _, _)

\* a loop that keeps the first container it finds
top_container_first(h, c, cs, under, top) ==
    IF cs = <<>> THEN top
    ELSE IF h.ct[Head(cs)].hidden \/ Head(cs) = c \/ Head(cs) \notin under
    THEN top_container_loop(h, c, Tail(cs), under, top)
    ELSE Head(cs)

\* the loop of update_drop_overlays over the dock containers cs: under are
\* the containers whose rectangle contains the cursor
top_container_loop(h, c, cs, under, top) ==
    IF cs = <<>> THEN top
    ELSE IF h.ct[Head(cs)].hidden \/ Head(cs) = c \/ Head(cs) \notin under
    THEN top_container_loop(h, c, Tail(cs), under, top)
    ELSE IF top = NoContainer \/ is_in_front_of(h, Head(cs), top)
    THEN top_container_loop(h, c, Tail(cs), under, Head(cs))
    ELSE top_container_loop(h, c, Tail(cs), under, top)

\* update_drop_overlays from the call of visible_dock_area_count on: top is
\* the drop container, at the dock area dock_area_at(global_pos) returns
\* (NoArea for None), container_area and area what the show_overlay calls
\* return
show_drop_overlays(h, top, at, container_area, area) ==
    The({
        IF at # NoArea /\ ~h.areas[at].hidden /\ n > 0
        THEN [h EXCEPT
                 !.dock_area_overlay =
                     enable_drop_preview(
                         show_overlay(
                             set_allowed_areas(enable_drop_preview(@, TRUE),
                                 IF n = 1 THEN no_area ELSE all_dock_areas),
                             at, area),
                         IF area = "center" /\ container_area # "invalid"
                         THEN FALSE ELSE TRUE),
                 !.container_overlay =
                     enable_drop_preview(co,
                         IF area = "center" /\ container_area # "invalid"
                         THEN TRUE ELSE area = "invalid")]
        ELSE [h EXCEPT !.dock_area_overlay = hide_overlay(@),
                       !.container_overlay = co] :
        n \in {visible_dock_area_count(h, top)},
        co \in {enable_drop_preview(
                    show_overlay(
                        set_allowed_areas(h.container_overlay,
                            IF visible_dock_area_count(h, top) > 1
                            THEN outer_dock_areas ELSE all_dock_areas),
                        top, container_area),
                    container_area # "invalid")}})

\* FloatingDockContainerPrivate.update_drop_overlays(global_pos) of the
\* floating widget of the container c, whose dock manager is set
update_drop_overlays(h, c, under, at, container_area, area) ==
    IF h.ct[c].hidden THEN h
    ELSE The({
        IF top = NoContainer
        THEN [h EXCEPT !.ct[c].drop_container = NoContainer,
                       !.container_overlay = hide_overlay(@),
                       !.dock_area_overlay = hide_overlay(@)]
        ELSE show_drop_overlays([h EXCEPT !.ct[c].drop_container = top],
                                top, at, container_area, area) :
        top \in {top_container_loop(h, c, h.containers, under, NoContainer)}})

\* ---------------------------------------------------------- DockManager
\* DockManager.add_dock_widget(area, dockwidget, dock_area_widget)
add_dock_widget(h, area, w, target) ==
    container_add_dock_widget(
        [h EXCEPT !.dock_widgets_map = IF InSeq(@, w) THEN @ ELSE Append(@, w)],
        Manager, area, w, target)

\* DockContainerWidget.last_added_dock_area_widget(area)
last_added_dock_area_widget(h, c, area) == h.ct[c].last_added_area_cache[area]

\* DockContainerWidget.dock_area(index): the list is indexed as python
\* indexes it, an IndexError gives None
container_dock_area(h, c, index) ==
    IF index >= 0 /\ index < Len(h.ct[c].dock_areas) THEN h.ct[c].dock_areas[index + 1]
    ELSE IF index < 0 /\ -index <= Len(h.ct[c].dock_areas)
    THEN h.ct[c].dock_areas[Len(h.ct[c].dock_areas) + index + 1]
    ELSE NoArea

\* DockContainerWidget.dock_area_count()
dock_area_count(h, c) == Len(h.ct[c].dock_areas)

\* DockManager.add_dock_widget_tab(area, dockwidget)
add_dock_widget_tab(h, area, w) ==
    The({IF area_widget # NoArea THEN add_dock_widget(h, "center", w, area_widget)
         ELSE add_dock_widget(h, area, w,
                  IF Len(opened_areas) > 0 THEN opened_areas[Len(opened_areas)]
                  ELSE NoArea) :
         area_widget \in {last_added_dock_area_widget(h, Manager, area)},
         opened_areas \in {opened_dock_areas(h, Manager)}})

\* DockManager.find_dock_widget(object_name); "" is None
find_dock_widget(h, name) == IF InSeq(h.dock_widgets_map, name) THEN name ELSE ""

\* DockContainerWidget.remove_dock_widget(widget)
container_remove_dock_widget(h, w) ==
    IF h.dw[w].dock_area = NoArea THEN h
    ELSE area_remove_dock_widget(h, h.dw[w].dock_area, w)

\* DockManager.remove_dock_widget(widget); dict.pop raises KeyError for a
\* dock widget the manager does not know
remove_dock_widget(h, w) ==
    IF ~InSeq(h.dock_widgets_map, w) THEN Raise(h, "KeyError")
    ELSE container_remove_dock_widget([h EXCEPT !.dock_widgets_map = PyRemove(@, w)], w)

\* ------------------------------------------------------------ save_state
\* DockWidget.save_state: <Widget Name=... Closed=.../>
XmlWidget(h, w) == [Name |-> w, Closed |-> IF h.dw[w].closed THEN "1" ELSE "0"]

\* DockAreaWidget.save_state: <Area Tabs=... Current=...> with its widgets
XmlArea(h, a) ==
    [k |-> "Area", Orientation |-> "", Count |-> 0, Sizes |-> 0, ch |-> <<>>,
     Tabs |-> Len(h.areas[a].widgets), Current |-> current_dock_widget(h, a),
     ws |-> [i \in 1..Len(h.areas[a].widgets) |-> XmlWidget(h, h.areas[a].widgets[i])]]

\* DockContainerWidgetPrivate.save_child_nodes_state: a splitter is written
\* with its orientation, its child count, its children and one size a child
RECURSIVE save_child_nodes_state(_, _)
save_child_nodes_state(h, t) ==
    IF t.k = "A" THEN XmlArea(h, t.id)
    ELSE [k |-> "Splitter", Orientation |-> IF t.o = "H" THEN "-" ELSE "|",
          Count |-> Len(t.ch), Sizes |-> Len(t.ch),
          ch |-> [i \in 1..Len(t.ch) |-> save_child_nodes_state(h, t.ch[i])],
          Tabs |-> 0, Current |-> "", ws |-> <<>>]

\* DockContainerWidget.save_state: <Container Floating=...>
container_save_state(h, c) ==
    [Floating |-> IF is_floating(c) THEN "1" ELSE "0",
     root |-> save_child_nodes_state(h, h.ct[c].root_splitter)]

\* DockManager.save_state(version)
save_state(h, version) ==
    [isEmpty |-> FALSE, Version |-> version, Containers |-> Len(h.containers),
     cs |-> [i \in 1..Len(h.containers) |-> container_save_state(h, h.containers[i])]]

\* an empty QByteArray
EmptyState == [isEmpty |-> TRUE, Version |-> 0, Containers |-> 0, cs |-> <<>>]

\* ---------------------------------------------------------- perspectives
\* dict[k] = v: the value of a key the dict holds is replaced in place, a new
\* key goes to the end
DictSet(d, k, v) ==
    IF \E i \in 1..Len(d) : d[i].name = k
    THEN [i \in 1..Len(d) |-> IF d[i].name = k THEN [name |-> k, state |-> v] ELSE d[i]]
    ELSE Append(d, [name |-> k, state |-> v])

DictHas(d, k) == \E i \in 1..Len(d) : d[i].name = k

\* del dict[k] for a key the dict holds
DictDel(d, k) ==
    The({SubSeq(d, 1, i - 1) \o SubSeq(d, i + 1, Len(d)) :
         i \in {CHOOSE j \in 1..Len(d) : d[j].name = k}})

\* an add_perspective that puts every saved state at the end of the list
add_perspective_append(h, name) ==
    Emit([h EXCEPT !.perspectives = Append(@, [name |-> name, state |-> save_state(h, 0)])],
         "perspective_list_changed", "")

\* DockManager.add_perspective(unique_perspective_name)
add_perspective(h, name) ==
    Emit([h EXCEPT !.perspectives = DictSet(@, name, save_state(h, 0))],
         "perspective_list_changed", "")

\* the loop of DockManager.remove_perspectives: the perspectives that are left
\* and the number of names that were deleted
RECURSIVE remove_perspectives_loop(_, _, _)
remove_perspectives_loop(d, names, count) ==
    IF names = <<>> THEN [perspectives |-> d, count |-> count]
    ELSE IF DictHas(d, Head(names))
    THEN remove_perspectives_loop(DictDel(d, Head(names)), Tail(names), count + 1)
    ELSE remove_perspectives_loop(d, Tail(names), count)

\* DockManager.remove_perspectives(*names)
remove_perspectives(h, names) ==
    The({IF r.count # 0
         THEN Emit(Emit([h EXCEPT !.perspectives = r.perspectives],
                        "perspectives_removed", ""),
                   "perspective_list_changed", "")
         ELSE [h EXCEPT !.perspectives = r.perspectives] :
         r \in {remove_perspectives_loop(h.perspectives, names, 0)}})

\* DockManager.perspective_names()
perspective_names(h) == [i \in 1..Len(h.perspectives) |-> h.perspectives[i].name]

\* --------------------------------------------------------- restore_state
\* the loop of restore_dock_area over the <Widget> elements ws: a dock
\* widget the manager knows is put into the new dock area a, which is hidden
RECURSIVE restore_area_widgets(_, _, _)
restore_area_widgets(h, a, ws) ==
    IF ws = <<>> THEN h
    ELSE restore_area_widgets(
             The({IF w = "" THEN h
                  ELSE [area_add_dock_widget([h EXCEPT !.areas[a].hidden = TRUE], a, w)
                          EXCEPT !.dw[w].checked = ~closed,
                                 !.dw[w].closed = closed,
                                 !.prop_closed = IF closed THEN @ \cup {w} ELSE @ \ {w},
                                 !.dirty = @ \ {w}] :
                  w \in {find_dock_widget(h, Head(ws).Name)},
                  closed \in {Head(ws).Closed # "0"}}),
             a, Tail(ws))

\* DockContainerWidgetPrivate.restore_dock_area(stream, testing) of container
\* c: [ok, h, node], node = Gone for None
restore_dock_area(h, c, x, testing) ==
    IF \E i \in 1..Len(x.ws) : x.ws[i].Name = "" THEN [ok |-> FALSE, h |-> h, node |-> Gone]
    ELSE IF testing \/ \A i \in 1..Len(x.ws) : find_dock_widget(h, x.ws[i].Name) = ""
    THEN [ok |-> TRUE, h |-> h, node |-> Gone]
    ELSE IF FreeAreas(h) = {} THEN [ok |-> TRUE, h |-> Raise(h, "BOUND"), node |-> Gone]
    ELSE The({[ok |-> TRUE,
               h |-> [restore_area_widgets([h EXCEPT !.areas[a] = NewDockArea], a, x.ws)
                        EXCEPT !.areas[a].currentDockWidget = x.Current,
                               !.ct[c].dock_areas = Append(@, a)],
               node |-> Leaf(a)] :
              a \in {FreshArea(h)}})

\* DockContainerWidgetPrivate.restore_splitter(stream, testing), and the loop
\* over its child elements xs, which collects the widgets created
RECURSIVE restore_splitter(_, _, _, _), restore_children(_, _, _, _, _)
restore_children(h, c, xs, testing, acc) ==
    IF xs = <<>> THEN [ok |-> TRUE, h |-> h, nodes |-> acc]
    ELSE The({IF ~r.ok \/ r.h.exc # "" THEN [ok |-> FALSE, h |-> r.h, nodes |-> acc]
              ELSE restore_children(r.h, c, Tail(xs), testing,
                                    IF r.node.k = "G" THEN acc ELSE Append(acc, r.node)) :
              r \in {IF Head(xs).k = "Splitter"
                     THEN restore_splitter(h, c, Head(xs), testing)
                     ELSE restore_dock_area(h, c, Head(xs), testing)}})

restore_splitter(h, c, x, testing) ==
    IF x.Orientation \notin {"-", "|"} THEN [ok |-> FALSE, h |-> h, node |-> Gone]
    ELSE IF x.Count = 0 THEN [ok |-> FALSE, h |-> h, node |-> Gone]
    ELSE The({IF ~r.ok THEN [ok |-> FALSE, h |-> r.h, node |-> Gone]
              ELSE IF x.Sizes # x.Count THEN [ok |-> FALSE, h |-> r.h, node |-> Gone]
              ELSE IF testing \/ r.nodes = <<>> THEN [ok |-> TRUE, h |-> r.h, node |-> Gone]
              ELSE [ok |-> TRUE, h |-> r.h,
                    node |-> Split(IF x.Orientation = "-" THEN "H" ELSE "V", r.nodes)] :
              r \in {restore_children(h, c, x.ch, testing, <<>>)}})

\* DockContainerWidget.restore_state(stream, testing) of container c: [ok, h].
\* The old root splitter is let go when the restoring starts; the source
\* lets it go at the end and reads nothing of it in between.
container_restore_state(h, c, xc, testing) ==
    IF xc.Floating \notin {"0", "1"}
    THEN [ok |-> FALSE,
          h |-> IF testing THEN h
                ELSE [h EXCEPT !.ct[c].dock_areas = <<>>,
                               !.ct[c].last_added_area_cache = EmptyCache,
                               !.ct[c].root_splitter = Split("H", <<>>)]]
    ELSE The({IF ~r.ok \/ r.h.exc # "" THEN [ok |-> FALSE, h |-> r.h]
              ELSE IF testing THEN [ok |-> TRUE, h |-> r.h]
              ELSE [ok |-> TRUE,
                    h |-> [r.h EXCEPT !.ct[c].root_splitter =
                              IF r.node.k = "G" THEN Split("H", <<>>) ELSE r.node]] :
              r \in {restore_splitter(
                         IF testing THEN h
                         ELSE [h EXCEPT !.ct[c].dock_areas = <<>>,
                                        !.ct[c].last_added_area_cache = EmptyCache,
                                        !.ct[c].root_splitter = Split("H", <<>>)],
                         c, xc.root, testing)}})

\* FloatingDockContainer.restore_state(stream, testing)
floating_restore_state(h, c, xc, testing) ==
    The({IF ~r.ok THEN r ELSE [ok |-> TRUE, h |-> on_dock_areas_added_or_removed(r.h, c)] :
         r \in {container_restore_state(h, c, xc, testing)}})

\* DockManagerPrivate.restore_container(index, stream, testing)
restore_container(h, index, xc, testing) ==
    The({
        IF idx >= Len(h.containers) /\ FreeContainers(h) = {}
        THEN [ok |-> FALSE, h |-> Raise(h, "BOUND")]
        ELSE The({
            The({IF is_floating(c) THEN floating_restore_state(h1, c, xc, testing)
                 ELSE container_restore_state(h1, c, xc, testing) :
                 h1 \in {IF idx >= Len(h.containers)
                         THEN [h EXCEPT !.ct[c] = NewContainer,
                                        !.containers = Append(@, c),
                                        !.floating_widgets = Append(@, c)]
                         ELSE h}}) :
            c \in {IF idx >= Len(h.containers) THEN FreshContainer(h)
                   ELSE h.containers[idx + 1]}}) :
        idx \in {IF testing THEN 0 ELSE index}})

\* the loop of restore_state_from_xml over the <Container> elements
RECURSIVE restore_containers(_, _, _, _)
restore_containers(h, xs, count, testing) ==
    IF xs = <<>> THEN [ok |-> TRUE, h |-> h, count |-> count]
    ELSE The({IF ~r.ok \/ r.h.exc # "" THEN [ok |-> FALSE, h |-> r.h, count |-> count]
              ELSE restore_containers(r.h, Tail(xs), count + 1, testing) :
              r \in {restore_container(h, count, Head(xs), testing)}})

\* the loop "delete remaining empty floating widgets": the i-th of n rounds;
\* FloatingDockContainer.deleteLater takes the widget out of the list at once
RECURSIVE delete_remaining(_, _, _, _)
delete_remaining(h, index, i, n) ==
    IF i >= n THEN h
    ELSE IF index + i >= Len(h.floating_widgets) THEN Raise(h, "IndexError")
    ELSE delete_remaining(
             The({[h EXCEPT !.containers = PyRemove(@, c),
                            !.floating_widgets = PyRemove(@, c),
                            !.ct[c] = NoContainerRec] :
                  c \in {h.floating_widgets[index + i + 1]}}),
             index, i + 1, n)

\* a restore_state_from_xml that does not compare the version numbers
restore_state_from_xml_any_version(h, state, version, testing) ==
    IF state.isEmpty THEN [ok |-> FALSE, h |-> h]
    ELSE The({IF testing \/ r.count = 0 \/ r.h.exc # "" THEN [ok |-> r.ok, h |-> r.h]
              ELSE [ok |-> r.ok,
                    h |-> delete_remaining(r.h, r.count - 1, 0,
                              Len(r.h.floating_widgets) - (r.count - 1))] :
              r \in {restore_containers(h, state.cs, 0, testing)}})

\* DockManagerPrivate.restore_state_from_xml(state, version, testing): [ok, h]
restore_state_from_xml(h, state, version, testing) ==
    IF state.isEmpty THEN [ok |-> FALSE, h |-> h]
    ELSE IF state.Version # version THEN [ok |-> FALSE, h |-> h]
    ELSE The({IF testing \/ r.count = 0 \/ r.h.exc # "" THEN [ok |-> r.ok, h |-> r.h]
              ELSE [ok |-> r.ok,
                    h |-> delete_remaining(r.h, r.count - 1, 0,
                              Len(r.h.floating_widgets) - (r.count - 1))] :
              r \in {restore_containers(h, state.cs, 0, testing)}})

\* DockManagerPrivate.check_format(state, version)
check_format(h, state, version) == restore_state_from_xml(h, state, version, TRUE).ok

\* DockManagerPrivate.hide_floating_widgets(), over the floating widgets fs
RECURSIVE hide_floating_widgets(_, _)
hide_floating_widgets(h, fs) ==
    IF fs = <<>> \/ h.exc # "" THEN h
    ELSE hide_floating_widgets(floating_hide(h, Head(fs)), Tail(fs))

\* DockManagerPrivate.mark_dock_widgets_dirty()
mark_dock_widgets_dirty(h) == [h EXCEPT !.dirty = SeqToSet(h.dock_widgets_map)]

\* a flag_as_unassigned that leaves the closed flag as it is
flag_as_unassigned_not_closed(h, w) == set_dock_area(h, w, NoArea)

\* DockWidget.flag_as_unassigned()
flag_as_unassigned(h, w) == set_dock_area([h EXCEPT !.dw[w].closed = TRUE], w, NoArea)

\* DockManagerPrivate.restore_dock_widgets_open_state(), over the values ws
\* of dock_widgets_map
RECURSIVE restore_dock_widgets_open_state(_, _)
restore_dock_widgets_open_state(h, ws) ==
    IF ws = <<>> \/ h.exc # "" THEN h
    ELSE restore_dock_widgets_open_state(
             IF Head(ws) \in h.dirty THEN flag_as_unassigned(h, Head(ws))
             ELSE toggle_view_internal(h, Head(ws), Head(ws) \notin h.prop_closed),
             Tail(ws))

\* the dock areas of the containers cs, container after container
RECURSIVE AllDockAreas(_, _)
AllDockAreas(h, cs) ==
    IF cs = <<>> THEN <<>> ELSE h.ct[Head(cs)].dock_areas \o AllDockAreas(h, Tail(cs))

\* DockManagerPrivate.restore_dock_areas_indices(), over the dock areas as:
\* the name saved as "currentDockWidget" is looked up only when it is empty,
\* so the first open dock widget becomes the current one
RECURSIVE restore_dock_areas_indices(_, _)
restore_dock_areas_indices(h, as) ==
    IF as = <<>> THEN h
    ELSE restore_dock_areas_indices(
             The({
                 The({
                     IF w = "" \/ h.dw[w].closed
                     THEN The({IF index < 0 THEN h ELSE set_current_index(h, a, index) :
                               index \in {index_of_first_open_dock_widget(h, a)}})
                     ELSE internal_set_current_dock_widget(h, a, w) :
                     w \in {IF name = "" THEN find_dock_widget(h, name) ELSE ""}}) :
                 a \in {Head(as)},
                 name \in {h.areas[Head(as)].currentDockWidget}}),
             Tail(as))

\* the else branch of emit_top_level_events: every dock widget of the
\* container c emits top_level_changed(False) unless that was its last value
emit_not_top_level(h, c) ==
    The({[h EXCEPT !.dw = [w \in DockWidgetNames |->
                              IF w \in ws THEN [@[w] EXCEPT !.is_floating_top_level = FALSE]
                              ELSE @[w]],
                   !.emitted = @ \cup {<<"top_level_changed(False)", w>> :
                                          w \in {x \in ws : h.dw[x].is_floating_top_level}}] :
         ws \in {UNION {SeqToSet(h.areas[a].widgets) :
                           a \in SeqToSet(h.ct[c].dock_areas)}}})

\* DockManagerPrivate.emit_top_level_events(), over the containers cs
RECURSIVE emit_top_level_events(_, _)
emit_top_level_events(h, cs) ==
    IF cs = <<>> THEN h
    ELSE emit_top_level_events(
             The({IF top # "" THEN emit_top_level_changed(h, top, TRUE)
                  ELSE emit_not_top_level(h, Head(cs)) :
                  top \in {top_level_dock_widget(h, Head(cs))}}),
             Tail(cs))

\* DockManagerPrivate.restore_state(state, version): [ok, h]
private_restore_state(h, state, version) ==
    IF ~check_format(h, state, version) THEN [ok |-> FALSE, h |-> h]
    ELSE The({
        IF h1.exc # "" THEN [ok |-> FALSE, h |-> h1]
        ELSE The({
            IF r.h.exc # "" \/ ~r.ok THEN [ok |-> FALSE, h |-> r.h]
            ELSE The({
                IF h2.exc # "" THEN [ok |-> FALSE, h |-> h2]
                ELSE The({IF h3.exc # "" THEN [ok |-> TRUE, h |-> h3]
                          ELSE [ok |-> TRUE, h |-> emit_top_level_events(h3, h3.containers)] :
                          h3 \in {restore_dock_areas_indices(
                                      h2, AllDockAreas(h2, h2.containers))}}) :
                h2 \in {restore_dock_widgets_open_state(r.h, r.h.dock_widgets_map)}}) :
            r \in {restore_state_from_xml(mark_dock_widgets_dirty(h1), state, version,
                                          FALSE)}}) :
        h1 \in {hide_floating_widgets(h, h.floating_widgets)}})

\* DockManager.restore_state, from the hiding of the dock manager to the
\* emission of restoring_state
restore_state_begin(h) ==
    Emit([h EXCEPT !.ct[Manager].hidden = TRUE, !.restoring_state = TRUE],
         "restoring_state", "")

\* a restore_state that never resets the flag
restore_state_no_finally(h) == h

\* DockManager.restore_state, the finally clause
restore_state_finally(h) == [h EXCEPT !.restoring_state = FALSE]

\* DockManager.restore_state, from the emission of state_restored to the end
restore_state_end(h, is_hidden) ==
    [Emit(h, "state_restored", "") EXCEPT !.ct[Manager].hidden = is_hidden]

\* DockManager.is_restoring_state()
is_restoring_state(h) == h.restoring_state

\* a restore_state without the check for a restore in progress
restore_state_unguarded(h, state, version) ==
    The({IF r.h.exc # "" THEN [result |-> "raised", h |-> restore_state_finally(r.h)]
         ELSE [result |-> IF r.ok THEN "True" ELSE "False",
               h |-> restore_state_end(restore_state_finally(r.h), h.ct[Manager].hidden)] :
         r \in {private_restore_state(restore_state_begin(h), state, version)}})

\* DockManager.restore_state(state, version), run without a break:
\* [result, h], result one of "True", "False", "raised"
restore_state(h, state, version) ==
    IF is_restoring_state(h) THEN [result |-> "False", h |-> h]
    ELSE The({IF r.h.exc # "" THEN [result |-> "raised", h |-> restore_state_finally(r.h)]
              ELSE [result |-> IF r.ok THEN "True" ELSE "False",
                    h |-> restore_state_end(restore_state_finally(r.h),
                                            h.ct[Manager].hidden)] :
              r \in {private_restore_state(restore_state_begin(h), state, version)}})

\* ------------------------------------------------------------- the state
VARIABLES
    dock_widgets,       \* DockWidgetPrivate of every dock widget, by object name
    dock_areas,         \* DockAreaWidgetPrivate with layout and tab bar, by area
    dock_containers,    \* DockContainerWidgetPrivate, by container
    containers,         \* DockManagerPrivate.containers
    floating_widgets,   \* DockManagerPrivate.floating_widgets
    dock_widgets_map,   \* DockManagerPrivate.dock_widgets_map, in insertion order
    restoring_state,    \* DockManagerPrivate.restoring_state
    perspectives,       \* DockManagerPrivate.perspectives, in insertion order
    z_order_counter,    \* _z_order_counter of dock_container_widget.py
    activated,          \* history: the container that got the last WindowActivate
    container_overlay,  \* DockManagerPrivate.container_overlay
    dock_area_overlay,  \* DockManagerPrivate.dock_area_overlay
    saved,              \* the byte array the application holds from save_state
    pc,                 \* where the running restore_state call stands
    call,               \* the restore_state call that runs or returned last
    last,               \* the call that returned last, with its outcome
    count               \* the calls made so far, by kind

vars == <<dock_widgets, dock_areas, dock_containers, containers, floating_widgets,
          dock_widgets_map, restoring_state, perspectives, z_order_counter, activated,
          container_overlay, dock_area_overlay, saved, pc, call, last, count>>

\* the objects of the program as one heap record, no exception pending
Heap ==
    [dw |-> dock_widgets, areas |-> dock_areas, ct |-> dock_containers,
     containers |-> containers, floating_widgets |-> floating_widgets,
     dock_widgets_map |-> dock_widgets_map, restoring_state |-> restoring_state,
     perspectives |-> perspectives, z_order_counter |-> z_order_counter,
     activated |-> activated, container_overlay |-> container_overlay,
     dock_area_overlay |-> dock_area_overlay,
     exc |-> "", emitted |-> {}, dirty |-> {}, prop_closed |-> {}]

\* the heap h becomes the state
Store(h) ==
    /\ dock_widgets' = h.dw
    /\ \E g \in {Collect(h)} :
           /\ dock_areas' = g.areas
           /\ dock_containers' = g.ct
    /\ containers' = h.containers
    /\ floating_widgets' = h.floating_widgets
    /\ dock_widgets_map' = h.dock_widgets_map
    /\ restoring_state' = h.restoring_state
    /\ perspectives' = h.perspectives
    /\ z_order_counter' = h.z_order_counter
    /\ activated' = h.activated
    /\ container_overlay' = h.container_overlay
    /\ dock_area_overlay' = h.dock_area_overlay

\* the docking state: every object but the restoring_state flag
Docking ==
    <<dock_widgets, dock_areas, dock_containers, containers, floating_widgets,
      dock_widgets_map>>

NoCall ==
    [state |-> EmptyState, version |-> 0, is_hidden |-> FALSE, result |-> "",
     before |-> <<>>]

Returned(op, area, w, target, open, h, result) ==
    [op |-> op, area |-> area, w |-> w, target |-> target, open |-> open,
     exc |-> h.exc, emitted |-> h.emitted, result |-> result]

\* DockManager.__init__: the manager is its own, empty container
Init ==
    /\ dock_widgets = [w \in DockWidgetNames |-> NewDockWidget]
    /\ dock_areas = [a \in AreaIds |-> NewDockArea]
    /\ dock_containers = [c \in ContainerIds |->
                             IF c = Manager THEN [NewContainer EXCEPT !.hidden = FALSE]
                             ELSE NoContainerRec]
    /\ containers = <<Manager>>
    /\ floating_widgets = <<>>
    /\ dock_widgets_map = <<>>
    /\ restoring_state = FALSE
    /\ perspectives = <<>>
    /\ z_order_counter = 0
    /\ activated = NoContainer
    /\ container_overlay = NewOverlay
    /\ dock_area_overlay = NewOverlay
    /\ saved = EmptyState
    /\ pc = "idle"
    /\ call = NoCall
    /\ last = [op |-> "", area |-> "", w |-> "", target |-> NoArea, open |-> FALSE,
               exc |-> "", emitted |-> {}, result |-> ""]
    /\ count = [k \in {"add", "toggle", "save", "restore", "nested", "remove", "float",
                        "feature", "close", "perspective", "unperspective",
                        "event", "tool_bar", "style", "icon_size", "drag"} |-> 0]

\* one more call of kind k
Spend(k) == count' = [count EXCEPT ![k] = @ + 1]

\* the application adds its dock widgets for the first time in the order of
\* their creation
InOrder(w) ==
    \/ InSeq(dock_widgets_map, w)
    \/ \A i \in 1..MaxWidgets : ObjectNames[i] = w =>
           \A j \in 1..(i - 1) : InSeq(dock_widgets_map, ObjectNames[j])

\* the application calls DockManager.add_dock_widget(area, w, target); a
\* target is a dock area of the dock manager
AddDockWidget(area, w, target) ==
    /\ pc = "idle"
    /\ InOrder(w)
    /\ target = NoArea \/ InSeq(dock_containers[Manager].dock_areas, target)
    /\ Spend("add")
    /\ \E h \in {add_dock_widget(Heap, area, w, target)} :
           /\ h.exc # "BOUND"
           /\ Store(h)
           /\ last' = Returned("add_dock_widget", area, w, target, FALSE, h, "")
    /\ call' = NoCall
    /\ UNCHANGED <<saved, pc>>

\* the application calls DockManager.add_dock_widget_tab(area, w)
AddDockWidgetTab(area, w) ==
    /\ pc = "idle"
    /\ InOrder(w)
    /\ Spend("add")
    /\ \E h \in {add_dock_widget_tab(Heap, area, w)} :
           /\ h.exc # "BOUND"
           /\ Store(h)
           /\ last' = Returned("add_dock_widget_tab", area, w, NoArea, FALSE, h, "")
    /\ call' = NoCall
    /\ UNCHANGED <<saved, pc>>

\* the application or the user calls DockWidget.toggle_view(open)
ToggleView(w, open) ==
    /\ pc = "idle"
    /\ Spend("toggle")
    /\ \E h \in {toggle_view(Heap, w, open)} :
           /\ h.exc # "BOUND"
           /\ Store(h)
           /\ last' = Returned("toggle_view", "", w, NoArea, open, h, "")
    /\ call' = NoCall
    /\ UNCHANGED <<saved, pc>>

\* the application calls DockManager.remove_dock_widget(w)
RemoveDockWidget(w) ==
    /\ pc = "idle"
    /\ Spend("remove")
    /\ \E h \in {remove_dock_widget(Heap, w)} :
           /\ h.exc # "BOUND"
           /\ Store(h)
           /\ last' = Returned("remove_dock_widget", "", w, NoArea, FALSE, h, "")
    /\ call' = NoCall
    /\ UNCHANGED <<saved, pc>>

\* the user drags the visible tab of the dock widget w out of its dock area,
\* or double-clicks it: DockWidgetTabPrivate.start_floating(dragging_state)
StartFloating(w, dragging_state) ==
    /\ pc = "idle"
    /\ dock_widgets[w].dock_area # NoArea
    /\ ~dock_widgets[w].tab_hidden
    /\ ~dock_areas[dock_widgets[w].dock_area].hidden
    /\ Spend("float")
    /\ \E h \in {tab_start_floating(Heap, w, dragging_state)} :
           /\ h.exc # "BOUND"
           /\ Store(h)
           /\ last' = Returned("start_floating", "", w, NoArea, FALSE, h, "")
    /\ call' = NoCall
    /\ UNCHANGED <<saved, pc>>

\* the user double-clicks the tab bar of the visible dock area a
MouseDoubleClick(a) ==
    /\ pc = "idle"
    /\ \E c \in SeqToSet(containers) : InSeq(dock_containers[c].dock_areas, a)
    /\ ~dock_areas[a].hidden
    /\ Spend("float")
    /\ \E h \in {mouse_double_click_event(Heap, a)} :
           /\ h.exc # "BOUND"
           /\ Store(h)
           /\ last' = Returned("mouseDoubleClickEvent", "", "", a, FALSE, h, "")
    /\ call' = NoCall
    /\ UNCHANGED <<saved, pc>>

\* the application calls DockWidget.set_feature(closable, on)
SetFeature(w, on) ==
    /\ pc = "idle"
    /\ Spend("feature")
    /\ \E h \in {set_feature(Heap, w, closable, on)} :
           /\ Store(h)
           /\ last' = Returned("set_feature", "", w, NoArea, on, h, "")
    /\ call' = NoCall
    /\ UNCHANGED <<saved, pc>>

\* the floating widget of the container c gets a close event
CloseEvent(c) ==
    /\ pc = "idle"
    /\ InSeq(floating_widgets, c)
    /\ Spend("close")
    /\ \E h \in {close_event(Heap, c)} :
           /\ Store(h)
           /\ last' = Returned("closeEvent", "", "", c, FALSE, h,
                               IF is_closable(Heap, c) THEN "accepted" ELSE "ignored")
    /\ call' = NoCall
    /\ UNCHANGED <<saved, pc>>

\* the application calls DockManager.save_state(version) and keeps the result
SaveState(version) ==
    /\ pc = "idle"
    /\ Spend("save")
    /\ saved' = save_state(Heap, version)
    /\ last' = Returned("save_state", "", "", NoArea, FALSE, Heap, "")
    /\ call' = NoCall
    /\ UNCHANGED <<dock_widgets, dock_areas, dock_containers, containers,
                   floating_widgets, dock_widgets_map, restoring_state,
                   perspectives, z_order_counter, activated, container_overlay,
                   dock_area_overlay, pc>>

\* enums.WidgetState
WidgetState == {"hidden", "docked", "floating"}

\* Qt.ToolButtonStyle values and the sides of square icon sizes
ToolButtonStyles == {"ToolButtonIconOnly", "ToolButtonTextUnderIcon"}
IconSizes == {16, 25}

\* the dock widgets the application gives tool bars and tool bar styles
ToolBarWidgets == {ObjectNames[i] : i \in 1..MaxToolBarWidgets}

\* the application calls DockWidget.set_tool_bar(tool_bar)
SetToolBar(w, size, style) ==
    /\ pc = "idle"
    /\ Spend("tool_bar")
    /\ \E h \in {set_tool_bar(Heap, w, size, style)} :
           /\ Store(h)
           /\ last' = Returned("set_tool_bar", "", w, size, FALSE, h, style)
    /\ call' = NoCall
    /\ UNCHANGED <<saved, pc>>

\* the application calls DockWidget.set_tool_bar_style(style, state)
SetToolBarStyle(w, style, state) ==
    /\ pc = "idle"
    /\ Spend("style")
    /\ \E h \in {set_tool_bar_style(Heap, w, style, state)} :
           /\ Store(h)
           /\ last' = Returned("set_tool_bar_style", state, w, NoArea, FALSE, h, style)
    /\ call' = NoCall
    /\ UNCHANGED <<saved, pc>>

\* the application calls DockWidget.set_tool_bar_icon_size(icon_size, state)
SetToolBarIconSize(w, icon_size, state) ==
    /\ pc = "idle"
    /\ Spend("icon_size")
    /\ \E h \in {set_tool_bar_icon_size(Heap, w, icon_size, state)} :
           /\ Store(h)
           /\ last' = Returned("set_tool_bar_icon_size", state, w, icon_size, FALSE, h, "")
    /\ call' = NoCall
    /\ UNCHANGED <<saved, pc>>

\* the areas the show_overlay calls of update_drop_overlays may return
DropAreas == {"invalid", "center", "left"}

\* SpecDrag: the areas of the main window the application adds dock widgets to
DragAddAreas == {"right", "center"}

\* the floating widget of the container c is dragged and the mouse moves:
\* FloatingDockContainerPrivate.update_drop_overlays(global_pos); under are
\* the containers whose rectangle contains global_pos, at is the visible dock
\* area of the drop container whose rectangle contains it (NoArea for none),
\* container_area and area are the drop areas under the cursor, which are
\* allowed areas of their overlay or, for a dock area, the title bar (center)
UpdateDropOverlays(c, under, at, container_area, area) ==
    /\ pc = "idle"
    /\ InSeq(floating_widgets, c)
    /\ under \subseteq SeqToSet(containers)
    /\ \E top \in {top_container_loop(Heap, c, containers, under, NoContainer)} :
           IF top = NoContainer \/ dock_containers[c].hidden
           THEN at = NoArea /\ container_area = "invalid" /\ area = "invalid"
           ELSE /\ at \in {NoArea} \cup SeqToSet(opened_dock_areas(Heap, top))
                /\ container_area \in {"invalid"} \cup
                      (IF visible_dock_area_count(Heap, top) > 1
                       THEN outer_dock_areas ELSE all_dock_areas)
                /\ IF at = NoArea THEN area = "invalid"
                   ELSE area \in {"invalid", "center"} \cup
                          (IF visible_dock_area_count(Heap, top) = 1
                           THEN no_area ELSE all_dock_areas)
    /\ Spend("drag")
    /\ \E h \in {update_drop_overlays(Heap, c, under, at, container_area, area)} :
           /\ Store(h)
           /\ last' = Returned("update_drop_overlays", "", "", c, FALSE, h, "")
    /\ call' = NoCall
    /\ UNCHANGED <<saved, pc>>

\* the names the application gives to perspectives
PerspectiveNames == {"p1", "p2"}

\* the argument lists of remove_perspectives: up to MaxNames names, repeated
\* names included
NameLists == UNION {[1..n -> PerspectiveNames] : n \in 0..MaxNames}

\* the application calls DockManager.add_perspective(name)
AddPerspective(name) ==
    /\ pc = "idle"
    /\ Spend("perspective")
    /\ \E h \in {add_perspective(Heap, name)} :
           /\ Store(h)
           /\ last' = Returned("add_perspective", "", name, NoArea, FALSE, h, "")
    /\ call' = NoCall
    /\ UNCHANGED <<saved, pc>>

\* the application calls DockManager.remove_perspectives(*names)
RemovePerspectives(names) ==
    /\ pc = "idle"
    /\ Spend("unperspective")
    /\ \E h \in {remove_perspectives(Heap, names)} :
           /\ Store(h)
           /\ last' = Returned("remove_perspectives", "", "", NoArea, FALSE, h, "")
    /\ call' = NoCall
    /\ UNCHANGED <<saved, pc>>

\* the event types Qt delivers to a container
EventTypes == {"WindowActivate", "Show", "Hide"}

\* Qt delivers an event of type e to the container c; a show event goes to
\* the container of a window that is shown
Event(c, e) ==
    /\ pc = "idle"
    /\ InSeq(containers, c)
    /\ e = "Show" => ~dock_containers[c].hidden
    /\ Spend("event")
    /\ \E h \in {event(Heap, c, e)} :
           /\ Store(IF e = "WindowActivate" THEN [h EXCEPT !.activated = c] ELSE h)
           /\ last' = Returned("event", e, "", c, FALSE, h, "")
    /\ call' = NoCall
    /\ UNCHANGED <<saved, pc>>

\* the byte arrays the application may hand to restore_state
States == {saved, EmptyState}

\* the application calls DockManager.restore_state(state, version): the call
\* runs up to the emission of restoring_state, whose handlers run next
RestoreBegin(state, version) ==
    /\ pc = "idle"
    /\ Spend("restore")
    /\ IF is_restoring_state(Heap)
       THEN /\ last' = Returned("restore_state", "", "", NoArea, FALSE, Heap, "False")
            /\ UNCHANGED <<dock_widgets, dock_areas, dock_containers, containers,
                           floating_widgets, dock_widgets_map, restoring_state,
                           perspectives, z_order_counter, activated,
                           container_overlay, dock_area_overlay, pc, call>>
       ELSE /\ Store(restore_state_begin(Heap))
            /\ call' = [state |-> state, version |-> version,
                        is_hidden |-> dock_containers[Manager].hidden, result |-> "",
                        before |-> Docking]
            /\ pc' = "restoring_state"
            /\ UNCHANGED last
    /\ UNCHANGED saved

\* a handler of restoring_state calls DockManager.restore_state(state, version)
NestedRestore(state, version) ==
    /\ pc = "restoring_state"
    /\ Spend("nested")
    /\ \E r \in {restore_state(Heap, state, version)} :
           /\ r.h.exc # "BOUND"
           /\ Store(r.h)
           /\ last' = Returned("nested restore_state", "", "", NoArea, FALSE, r.h,
                               r.result)
    /\ UNCHANGED <<saved, pc, call>>

\* the handlers of restoring_state are done: DockManagerPrivate.restore_state
\* runs, then the finally clause, then state_restored is emitted unless an
\* exception leaves the call
RestoreRun ==
    /\ pc = "restoring_state"
    /\ \E r \in {private_restore_state(Heap, call.state, call.version)} :
       \E h2 \in {restore_state_finally(r.h)} :
           /\ r.h.exc # "BOUND"
           /\ IF r.h.exc # ""
              THEN /\ Store(h2)
                   /\ pc' = "raised"
                   /\ call' = [call EXCEPT !.result = "raised"]
                   /\ last' = Returned("restore_state", "", "", NoArea, FALSE, h2,
                                       "raised")
              ELSE /\ Store(Emit(h2, "state_restored", ""))
                   /\ pc' = "state_restored"
                   /\ call' = [call EXCEPT !.result = IF r.ok THEN "True" ELSE "False"]
                   /\ last' = Returned("private restore_state", "", "", NoArea, FALSE,
                                       h2, call'.result)
    /\ UNCHANGED <<saved, count>>

\* the handlers of state_restored are done: the dock manager is shown again
\* and restore_state returns
RestoreReturn ==
    /\ pc = "state_restored"
    /\ Store([Heap EXCEPT !.ct[Manager].hidden = call.is_hidden])
    /\ pc' = "idle"
    /\ last' = [last EXCEPT !.op = "restore_state"]
    /\ UNCHANGED <<saved, call, count>>

\* the application builds a layout and the user opens and closes dock widgets
Next ==
    \/ \E area \in DockWidgetArea, w \in DockWidgetNames, target \in AreaIds \cup {NoArea} :
           count.add < MaxLayoutAdds /\ AddDockWidget(area, w, target)
    \/ \E area \in DockWidgetArea, w \in DockWidgetNames :
           count.add < MaxLayoutAdds /\ AddDockWidgetTab(area, w)
    \/ \E w \in DockWidgetNames, open \in BOOLEAN :
           count.toggle < MaxLayoutToggles /\ ToggleView(w, open)

Spec == Init /\ [][Next]_vars

\* the same for the dock widgets of the dock manager, and the application
\* saves the state and restores a saved state
NextRestore ==
    \/ \E area \in DockWidgetArea, w \in DockWidgetNames, target \in AreaIds \cup {NoArea} :
           count.add < MaxAdds /\ AddDockWidget(area, w, target)
    \/ \E area \in DockWidgetArea, w \in DockWidgetNames :
           count.add < MaxAdds /\ AddDockWidgetTab(area, w)
    \/ \E w \in DockWidgetNames, open \in BOOLEAN :
           count.toggle < MaxToggles /\ dock_widgets[w].dock_manager /\ ToggleView(w, open)
    \/ \E version \in Versions : count.save < MaxSaves /\ SaveState(version)
    \/ \E state \in States, version \in Versions :
           count.restore < MaxRestores /\ RestoreBegin(state, version)
    \/ \E state \in States, version \in Versions :
           count.nested < MaxNested /\ NestedRestore(state, version)
    \/ RestoreRun
    \/ RestoreReturn

SpecRestore == Init /\ [][NextRestore]_vars

\* the application adds dock widgets, takes them out of the dock manager
\* again, and the user opens and closes them
NextRemove ==
    \/ \E area \in DockWidgetArea, w \in DockWidgetNames, target \in AreaIds \cup {NoArea} :
           count.add < MaxRemoveAdds /\ AddDockWidget(area, w, target)
    \/ \E w \in DockWidgetNames, open \in BOOLEAN :
           count.toggle < MaxRemoveToggles /\ ToggleView(w, open)
    \/ \E w \in DockWidgetNames :
           count.remove < MaxRemoves /\ RemoveDockWidget(w)

SpecRemove == Init /\ [][NextRemove]_vars

\* the user makes dock widgets and dock areas floating and closes floating
\* widgets; the application sets the closable feature
NextFloat ==
    \/ \E area \in DockWidgetArea, w \in DockWidgetNames, target \in AreaIds \cup {NoArea} :
           count.add < MaxFloatAdds /\ AddDockWidget(area, w, target)
    \/ \E w \in DockWidgetNames, open \in BOOLEAN :
           count.toggle < MaxFloatToggles /\ ToggleView(w, open)
    \/ \E w \in DockWidgetNames, state \in {"inactive", "floating_widget"} :
           count.float < MaxFloats /\ StartFloating(w, state)
    \/ \E a \in AreaIds : count.float < MaxFloats /\ MouseDoubleClick(a)
    \/ \E w \in DockWidgetNames, on \in BOOLEAN :
           count.feature < MaxFeatures /\ SetFeature(w, on)
    \/ \E c \in FloatingIds : count.close < MaxCloses /\ CloseEvent(c)

SpecFloat == Init /\ [][NextFloat]_vars

\* the application adds a dock widget and saves and removes perspectives
NextPerspectives ==
    \/ \E area \in DockWidgetArea, w \in DockWidgetNames, target \in AreaIds \cup {NoArea} :
           count.add < MaxPerspectiveAdds /\ AddDockWidget(area, w, target)
    \/ \E name \in PerspectiveNames :
           count.perspective < MaxAddPerspectives /\ AddPerspective(name)
    \/ \E names \in NameLists :
           count.unperspective < MaxRemovePerspectives /\ RemovePerspectives(names)

SpecPerspectives == Init /\ [][NextPerspectives]_vars

\* the application adds dock widgets, the user drags them out of the main
\* window and the windows are shown and activated
NextZOrder ==
    \/ \E area \in DockWidgetArea, w \in DockWidgetNames, target \in AreaIds \cup {NoArea} :
           count.add < MaxZAdds /\ AddDockWidget(area, w, target)
    \/ \E w \in DockWidgetNames :
           count.float < MaxZFloats /\ StartFloating(w, "inactive")
    \/ \E c \in ContainerIds, e \in EventTypes :
           count.event < MaxEvents /\ Event(c, e)

SpecZOrder == Init /\ [][NextZOrder]_vars

\* the application adds a dock widget, gives dock widgets a tool bar and sets
\* tool bar styles and icon sizes, and the user drags a dock widget out
NextToolBar ==
    \/ \E area \in DockWidgetArea, w \in DockWidgetNames, target \in AreaIds \cup {NoArea} :
           count.add < MaxToolBarAdds /\ AddDockWidget(area, w, target)
    \/ \E w \in DockWidgetNames :
           count.float < MaxToolBarFloats /\ StartFloating(w, "inactive")
    \/ \E w \in ToolBarWidgets, size \in IconSizes, style \in ToolButtonStyles :
           count.tool_bar < MaxToolBars /\ SetToolBar(w, size, style)
    \/ \E w \in ToolBarWidgets, style \in ToolButtonStyles, state \in WidgetState :
           count.style < MaxStyles /\ SetToolBarStyle(w, style, state)
    \/ \E w \in ToolBarWidgets, size \in IconSizes, state \in WidgetState :
           count.icon_size < MaxIconSizes /\ SetToolBarIconSize(w, size, state)

SpecToolBar == Init /\ [][NextToolBar]_vars

\* the application adds dock widgets, the user drags them out of the main
\* window, windows are shown, activated and closed, and a floating widget is
\* dragged over the other windows
NextDrag ==
    \/ \E area \in DragAddAreas, w \in DockWidgetNames, target \in AreaIds \cup {NoArea} :
           count.add < MaxDragAdds /\ AddDockWidget(area, w, target)
    \/ \E w \in DockWidgetNames :
           count.float < MaxDragFloats /\ StartFloating(w, "floating_widget")
    \/ \E c \in ContainerIds, e \in EventTypes :
           count.event < MaxDragEvents /\ Event(c, e)
    \/ \E c \in FloatingIds :
           count.close < MaxDragCloses /\ CloseEvent(c)
    \/ \E c \in FloatingIds, under \in SUBSET ContainerIds, at \in AreaIds \cup {NoArea},
          container_area \in DropAreas, area \in DropAreas :
           count.drag < MaxDrags /\ UpdateDropOverlays(c, under, at, container_area, area)

SpecDrag == Init /\ [][NextDrag]_vars

\* ------------------------------------------------------------ properties
\* the heap made of a docking state d
HeapOf(d) ==
    [dw |-> d[1], areas |-> d[2], ct |-> d[3], containers |-> d[4],
     floating_widgets |-> d[5], dock_widgets_map |-> d[6], restoring_state |-> FALSE,
     perspectives |-> <<>>, z_order_counter |-> 0, activated |-> NoContainer,
     container_overlay |-> NewOverlay, dock_area_overlay |-> NewOverlay,
     exc |-> "", emitted |-> {}, dirty |-> {}, prop_closed |-> {}]

\* what a saved state says about the layout: the containers, their splitter
\* trees, the dock areas with their dock widgets in tab order and the closed
\* flag of every dock widget; the current tab of an area is left out
RECURSIVE Arrangement(_)
Arrangement(x) ==
    IF x.k = "Area" THEN [x EXCEPT !.Current = ""]
    ELSE [x EXCEPT !.ch = [i \in 1..Len(x.ch) |-> Arrangement(x.ch[i])]]

LayoutOf(state) ==
    [i \in 1..Len(state.cs) |->
        [Floating |-> state.cs[i].Floating, root |-> Arrangement(state.cs[i].root)]]

\* restore_state has just returned or raised
Returning == last.op = "restore_state" /\ pc \in {"idle", "raised"}

\* the call was restore_state(save_state(version), version)
RoundTrip == call.before # <<>> /\ call.state = save_state(HeapOf(call.before), call.version)

\* C1: restore_state(save_state()) returns True and leaves the layout as it
\* was: the same containers, splitter trees, dock areas, tab orders and
\* closed flags
C1_RoundTrip ==
    (Returning /\ RoundTrip) =>
        /\ call.result = "True"
        /\ LayoutOf(save_state(Heap, call.version)) = LayoutOf(call.state)

\* the state handed to the call names another version than the argument
VersionMismatch == ~call.state.isEmpty /\ call.state.Version # call.version

\* the state handed to the call fails the format check
FormatError == ~check_format(HeapOf(call.before), call.state, call.version)

\* C2: restore_state with a state of another version, or one that fails the
\* format check, returns False and leaves the docking state as it was
C2_Unchanged ==
    (Returning /\ (VersionMismatch \/ FormatError)) =>
        /\ call.result = "False"
        /\ Docking = call.before

\* a restore_state of a saved state of another version has returned, with a
\* dock widget in the layout
C2_Witness ==
    /\ Returning /\ VersionMismatch /\ call.result = "False"
    /\ dock_containers[Manager].dock_areas # <<>>

\* the <Widget> elements of a saved state
RECURSIVE SavedWidgets(_)
SavedWidgets(x) ==
    IF x.k = "Area" THEN SeqToSet(x.ws)
    ELSE UNION {SavedWidgets(x.ch[i]) : i \in 1..Len(x.ch)}

StateWidgets(state) == UNION {SavedWidgets(state.cs[i].root) : i \in 1..Len(state.cs)}

\* the dock widget w is flagged as unassigned
Unassigned(w) ==
    /\ dock_widgets[w].closed
    /\ dock_widgets[w].dock_area = NoArea
    /\ ~dock_widgets[w].checked

\* the dock widget w is in a dock area of a container of the manager
Docked(w) ==
    /\ dock_widgets[w].dock_area # NoArea
    /\ InSeq(dock_areas[dock_widgets[w].dock_area].widgets, w)
    /\ \E i \in 1..Len(containers) :
           InSeq(dock_containers[containers[i]].dock_areas, dock_widgets[w].dock_area)

\* C3: after a successful restore_state every registered dock widget that
\* the state does not contain is flagged as unassigned, and every one it
\* contains is in a restored dock area, closed as the state says
C3_Restored ==
    (Returning /\ call.result = "True") =>
        \A w \in SeqToSet(dock_widgets_map) :
            IF \E x \in StateWidgets(call.state) : x.Name = w
            THEN /\ Docked(w)
                 /\ \A x \in StateWidgets(call.state) :
                        x.Name = w => (dock_widgets[w].closed <=> x.Closed = "1")
            ELSE Unassigned(w)

\* a restore_state has succeeded with a registered dock widget that the state
\* does not contain and a closed one that it contains
C3_Witness ==
    /\ Returning /\ call.result = "True"
    /\ \E w \in SeqToSet(dock_widgets_map) :
           \A x \in StateWidgets(call.state) : x.Name # w
    /\ \E x \in StateWidgets(call.state) :
           x.Closed = "1" /\ InSeq(dock_widgets_map, x.Name)

\* C4: is_restoring_state() is True from the emission of restoring_state to
\* the emission of state_restored and False at every other time, also after
\* a restore_state that failed or raised
C4_Flag == is_restoring_state(Heap) <=> pc = "restoring_state"

\* a restore_state has raised and is_restoring_state() is False
C4_Witness == pc = "raised" /\ call.result = "raised" /\ ~is_restoring_state(Heap)

\* the docking state of the heap h
DockingOf(h) ==
    <<h.dw, Collect(h).areas, Collect(h).ct, h.containers, h.floating_widgets,
      h.dock_widgets_map>>

Root == dock_containers[Manager].root_splitter
Areas == dock_containers[Manager].dock_areas

\* a call add_dock_widget(last'.area, last'.w, last'.target) returns
AddStep == count'.add # count.add /\ last'.op = "add_dock_widget" /\ last'.exc = ""

\* the dock areas other than n are in the tree new in the order they had in
\* the tree old
OthersKept(old, new, n) ==
    SelectSeq(TreeAreas(new), LAMBDA a : a # n)
        = SelectSeq(TreeAreas(old), LAMBDA a : InTree(new, a))

\* a new dock area n that holds only w has been created
Created(old_areas, areas, n, w) ==
    /\ n # NoArea
    /\ ~InSeq(old_areas, n)
    /\ InSeq(Areas', n)
    /\ areas[n].widgets = <<w>>

C8_SameArea ==
    [][(/\ count'.add # count.add
        /\ last.op = "add_dock_widget_tab" /\ last'.op = "add_dock_widget_tab"
        /\ last.area = last'.area /\ last.w # last'.w
        /\ last.exc = "" /\ last'.exc = "") =>
            dock_widgets'[last.w].dock_area = dock_widgets'[last'.w].dock_area]_vars

\* the signals view_toggled and closed of the dock widget w
ToggleSignals(w) ==
    {<<"view_toggled(True)", w>>, <<"view_toggled(False)", w>>, <<"closed", w>>}

\* a call toggle_view(last'.open) of the dock widget last'.w returns
ToggleStep == count'.toggle # count.toggle /\ last'.op = "toggle_view" /\ last'.exc = ""

\* what toggle_view(open) does to the dock widget w: w is closed iff not
\* open and its action is checked iff open; if w was in that state before,
\* nothing is emitted and nothing changes but the current tab of the area of
\* w, which is w for open = True; and a second toggle_view(open) changes
\* nothing
ToggleEffect ==
    LET w    == last'.w
        open == last'.open
        a    == dock_widgets[w].dock_area
    IN  /\ dock_widgets'[w].closed = ~open
        /\ dock_widgets'[w].checked = open
        /\ (dock_widgets[w].closed = ~open) =>
              /\ last'.emitted \cap ToggleSignals(w) = {}
              /\ UNCHANGED <<dock_widgets, dock_containers, containers,
                             floating_widgets, dock_widgets_map>>
              /\ \A b \in AreaIds :
                    IF b = a /\ open
                    THEN /\ dock_areas'[b].widgets = dock_areas[b].widgets
                         /\ dock_areas'[b].hidden = dock_areas[b].hidden
                         /\ dock_areas'[b].current_widget = w
                    ELSE dock_areas'[b] = dock_areas[b]
        /\ LET h == toggle_view(Heap', w, open)
           IN  h.exc = "" /\ h.emitted = {} /\ DockingOf(h) = Docking'

C10_Floating ==
    [][(/\ count'.toggle # count.toggle /\ last'.op = "toggle_view" /\ last'.open
        /\ Unassigned(last'.w) /\ dock_widgets[last'.w].dock_manager) =>
            LET w == last'.w
                a == dock_widgets'[w].dock_area
                c == dock_container(Heap', a)
            IN  /\ last'.exc = ""
                /\ ~dock_widgets'[w].closed
                /\ a # NoArea
                /\ InSeq(dock_areas'[a].widgets, w)
                /\ c # NoContainer
                /\ is_floating(c)
                /\ InSeq(dock_containers'[c].dock_areas, a)
                /\ InSeq(containers', c)
                /\ InSeq(floating_widgets', c)
                /\ ~InSeq(floating_widgets, c)
                /\ ~dock_containers'[c].hidden]_vars

\* a dock widget that a restore_state flagged as unassigned has been shown
\* in a floating container
C10_Witness ==
    /\ last.op = "toggle_view" /\ last.open /\ last.exc = ""
    /\ count.restore > 0
    /\ floating_widgets # <<>>
    /\ dock_widgets[last.w].dock_area # NoArea
    /\ InSeq(floating_widgets, dock_container(Heap, dock_widgets[last.w].dock_area))

\* C11: the dock area a dock widget names is None or an area that holds the
\* dock widget; after remove_dock_widget it is None, and the dock widget can
\* be added again without error
C11_AreaOfWidget ==
    /\ [](\A w \in DockWidgetNames :
             \/ dock_widgets[w].dock_area = NoArea
             \/ InSeq(dock_areas[dock_widgets[w].dock_area].widgets, w))
    /\ [][(count'.remove # count.remove /\ last'.exc = "") =>
              dock_widgets'[last'.w].dock_area = NoArea]_vars
    /\ [][(count'.add # count.add /\ ~InSeq(dock_widgets_map, last'.w)) =>
              last'.exc = ""]_vars

\* C12: the current index of a dock area is -1 and its current dock widget
\* None when all its dock widgets are closed; otherwise the current dock
\* widget is an open dock widget of the area
C12_Current ==
    \A c \in SeqToSet(containers) : \A a \in SeqToSet(dock_containers[c].dock_areas) :
        IF opened_dock_widgets(Heap, a) = <<>>
        THEN dock_areas[a].current_index = -1 /\ current_dock_widget(Heap, a) = ""
        ELSE InSeq(opened_dock_widgets(Heap, a), current_dock_widget(Heap, a))

\* C13: next_open_dock_widget(w) raises nothing for any dock widget w of the
\* area, open or closed: it returns an open dock widget of the area other
\* than w, or None when the area has no other open dock widget
C13_NextOpen ==
    \A c \in SeqToSet(containers) : \A a \in SeqToSet(dock_containers[c].dock_areas) :
        \A w \in SeqToSet(dock_areas[a].widgets) :
            LET n == next_open_dock_widget(Heap, a, w)
                others == SeqToSet(opened_dock_widgets(Heap, a)) \ {w}
            IN  /\ n.exc = ""
                /\ IF others = {} THEN n.w = "" ELSE n.w \in others

\* C14: the opened dock areas of a container are exactly its dock areas
\* that hold an open dock widget
C14_OpenedAreas ==
    \A c \in SeqToSet(containers) :
        SeqToSet(opened_dock_areas(Heap, c)) =
            {a \in SeqToSet(dock_containers[c].dock_areas) :
                 opened_dock_widgets(Heap, a) # <<>>}

\* the dock widgets in the dock areas of the container c
DockWidgetsOf(c) ==
    UNION {SeqToSet(dock_areas[a].widgets) : a \in SeqToSet(dock_containers[c].dock_areas)}

\* the dock widgets of the container c that are open and in a dock area
\* that is not hidden
VisibleDockWidgetsOf(c) ==
    UNION {{w \in SeqToSet(dock_areas[a].widgets) : ~dock_widgets[w].closed} :
             a \in {x \in SeqToSet(dock_containers[c].dock_areas) : ~dock_areas[x].hidden}}

C16_TopLevel ==
    pc = "idle" =>
        \A w \in DockWidgetNames :
            dock_widgets[w].is_floating_top_level = dock_widget_is_floating(Heap, w)

\* the container c holds a dock widget without the closable feature
NonClosable(c) ==
    \E w \in DockWidgetsOf(c) : closable \notin Flags(dock_widgets[w].features)

\* the floating widget of the container last'.target has handled a close event
CloseStep == count'.close # count.close /\ last'.op = "closeEvent"

\* C17: a floating widget is closable iff every dock widget of its container
\* has the closable feature; a close event on one that is not closable
\* leaves the window and every dock widget as they are, a close event on a
\* closable one hides the window, and both reset the drag state
C17_Close ==
    /\ [][CloseStep =>
            /\ dock_containers'[last'.target].dragging_state = "inactive"
            /\ is_closable(Heap, last'.target) <=> ~NonClosable(last'.target)
            /\ NonClosable(last'.target) =>
                   /\ dock_containers'[last'.target].hidden
                          = dock_containers[last'.target].hidden
                   /\ dock_widgets' = dock_widgets
                   /\ dock_areas' = dock_areas
                   /\ last'.emitted = {}
            /\ ~NonClosable(last'.target) =>
                   /\ dock_containers'[last'.target].hidden
                   /\ \A w \in DockWidgetsOf(last'.target) : dock_widgets'[w].closed]_vars

\* a visible floating widget that holds an open dock widget without the
\* closable feature has ignored a close event
C17_Witness ==
    /\ last.op = "closeEvent" /\ last.result = "ignored"
    /\ NonClosable(last.target)
    /\ ~dock_containers[last.target].hidden
    /\ \E w \in DockWidgetsOf(last.target) : ~dock_widgets[w].closed

\* the names of the perspectives d and the state d holds under the name k
NamesOf(d) == {d[i].name : i \in 1..Len(d)}
StateOf(d, k) == d[CHOOSE i \in 1..Len(d) : d[i].name = k].state

PerspectiveSignals ==
    {<<"perspectives_removed", "">>, <<"perspective_list_changed", "">>}

\* C18: add_perspective(name) stores save_state() under name, in place of
\* what the name held, and leaves every other perspective alone;
\* remove_perspectives(*names) raises nothing, takes out exactly the given
\* names that are there and emits perspectives_removed and
\* perspective_list_changed if a perspective was removed and nothing if
\* not; no other call changes the perspectives; perspective_names() holds
\* every name once
C18_Perspectives ==
    /\ [](\A i, j \in 1..Len(perspective_names(Heap)) :
            perspective_names(Heap)[i] = perspective_names(Heap)[j] => i = j)
    /\ [][\A name \in PerspectiveNames : AddPerspective(name) =>
            /\ last'.exc = ""
            /\ SeqToSet(perspective_names(Heap))' =
                   SeqToSet(perspective_names(Heap)) \cup {name}
            /\ StateOf(perspectives', name) = save_state(Heap, 0)
            /\ \A k \in NamesOf(perspectives) \ {name} :
                   StateOf(perspectives', k) = StateOf(perspectives, k)
            /\ <<"perspective_list_changed", "">> \in last'.emitted]_vars
    /\ [][\A names \in NameLists : RemovePerspectives(names) =>
            /\ last'.exc = ""
            /\ SeqToSet(perspective_names(Heap))' =
                   SeqToSet(perspective_names(Heap)) \ SeqToSet(names)
            /\ \A k \in NamesOf(perspectives') :
                   StateOf(perspectives', k) = StateOf(perspectives, k)
            /\ last'.emitted =
                   IF SeqToSet(names) \cap NamesOf(perspectives) # {}
                   THEN PerspectiveSignals ELSE {}]_vars
    /\ [][last'.op \notin {"add_perspective", "remove_perspectives"} =>
            perspectives' = perspectives]_vars

\* a third add_perspective overwrote the first of two perspectives with a
\* state that differs from the other one, after a remove_perspectives call
C18_Witness ==
    /\ last.op = "add_perspective"
    /\ count.perspective = 3
    /\ count.unperspective > 0
    /\ Len(perspectives) = 2
    /\ perspectives[1].name = last.w
    /\ perspectives[1].state = save_state(Heap, 0)
    /\ perspectives[1].state # perspectives[2].state

\* C19: dock_area(index) of a container is the dock area at the index for
\* an index in 0 .. dock_area_count()-1 and None for every other index,
\* the negative ones included
C19_DockArea ==
    \A c \in SeqToSet(containers), index \in (-MaxIndex)..MaxIndex :
        container_dock_area(Heap, c, index) =
            IF index \in 0..(dock_area_count(Heap, c) - 1)
            THEN dock_containers[c].dock_areas[index + 1]
            ELSE NoArea

\* the floating containers
Floating == SeqToSet(floating_widgets)

\* the container c is in front of every other floating container
InFrontOfAll(c) == \A o \in Floating \ {c} : is_in_front_of(Heap, c, o)

\* the dock manager is behind: its z_order_index() is 0, it is in front of
\* no container, no container is in front of itself, a floating container
\* that is shown or gets a WindowActivate or Show event is in front of the
\* dock manager and stays there
ManagerBehind ==
    /\ [](/\ z_order_index(Heap, Manager) = 0
          /\ \A c \in SeqToSet(containers) :
                /\ ~is_in_front_of(Heap, Manager, c)
                /\ ~is_in_front_of(Heap, c, c)
          /\ \A c \in Floating :
                ~dock_containers[c].hidden => is_in_front_of(Heap, c, Manager))
    /\ [][\A c \in Floating :
            /\ (last'.op = "event" /\ last'.target = c /\ count' # count
                 /\ last'.area \in {"WindowActivate", "Show"})
                    => is_in_front_of(Heap, c, Manager)'
            /\ (c \in Floating' /\ is_in_front_of(Heap, c, Manager))
                    => is_in_front_of(Heap, c, Manager)']_vars

\* the claim of C20 as it stands: the dock manager is behind, and the floating
\* container that was activated last is in front of all other floating
\* containers
C20_Original ==
    /\ ManagerBehind
    /\ [](activated \in Floating => InFrontOfAll(activated))

\* the step gives the floating container o a new z order index
Raised(o) ==
    /\ o \in Floating'
    /\ dock_containers'[o].z_order_index #
           (IF o \in Floating THEN dock_containers[o].z_order_index ELSE 0)

\* C20: the dock manager is behind (z_order_index() 0, in front of nothing,
\* every floating container that was shown or activated in front of it), no
\* container is in front of itself, and the floating container that was
\* activated or shown for the first time most recently is in front of all
\* other floating containers: a step that activates or first shows a
\* floating container puts it in front of all others, and a floating
\* container in front of all others stays there until another one is
\* activated or shown for the first time
C20_ZOrder ==
    /\ ManagerBehind
    /\ [][\A c \in Floating' :
            /\ Raised(c) => InFrontOfAll(c)'
            /\ (/\ c \in Floating
                 /\ is_in_front_of(Heap, c, Manager)
                 /\ InFrontOfAll(c)
                 /\ \A o \in Floating' \ {c} : ~Raised(o))
                    => InFrontOfAll(c)']_vars

\* a floating container was activated, then a second one was shown for the
\* first time and is in front of it
C20_Witness ==
    /\ activated \in Floating
    /\ \E o \in Floating \ {activated} :
           /\ is_in_front_of(Heap, o, activated)
           /\ is_in_front_of(Heap, activated, Manager)
           /\ ~is_in_front_of(Heap, activated, o)

\* the call that returned last is set_tool_bar_style(style, state) of w
StyleStep(w, style, state) ==
    /\ count'.style # count.style
    /\ last'.w = w /\ last'.result = style /\ last'.area = state

\* the call that returned last is set_tool_bar_icon_size(size, state) of w
IconSizeStep(w, size, state) ==
    /\ count'.icon_size # count.icon_size
    /\ last'.w = w /\ last'.target = size /\ last'.area = state

\* the claim of C21 as it stands: a setter gives its state the value and
\* leaves the values of every other state, and of every other dock widget,
\* as they are
C21_Original ==
    [][\A w \in DockWidgetNames, state \in WidgetState :
        /\ \A style \in ToolButtonStyles : StyleStep(w, style, state) =>
              /\ tool_bar_style(Heap, w, state)' = style
              /\ \A s \in WidgetState \ {state} :
                    tool_bar_style(Heap, w, s)' = tool_bar_style(Heap, w, s)
        /\ \A size \in IconSizes : IconSizeStep(w, size, state) =>
              /\ tool_bar_icon_size(Heap, w, state)' = size
              /\ \A s \in WidgetState \ {state} :
                    tool_bar_icon_size(Heap, w, s)' = tool_bar_icon_size(Heap, w, s)]_vars

\* C21: a dock widget keeps one tool bar style and one icon size for the
\* state floating and one for the states hidden and docked together:
\* set_tool_bar_style(style, s) makes tool_bar_style(s) return style,
\* changes no icon size and leaves the style of floating alone if s is not
\* floating and the style of hidden and docked alone if s is floating;
\* set_tool_bar_icon_size does the same for the icon sizes; hidden and
\* docked always return the same values; no other call and no call on
\* another dock widget changes the values
C21_ToolBar ==
    /\ [](\A w \in DockWidgetNames :
            /\ tool_bar_style(Heap, w, "hidden") = tool_bar_style(Heap, w, "docked")
            /\ tool_bar_icon_size(Heap, w, "hidden") = tool_bar_icon_size(Heap, w, "docked"))
    /\ [][\A w \in DockWidgetNames :
            LET styled == count'.style # count.style /\ last'.w = w
                sized  == count'.icon_size # count.icon_size /\ last'.w = w
            IN  /\ styled =>
                      /\ tool_bar_style(Heap', w, last'.area) = last'.result
                      /\ \A s \in WidgetState :
                            /\ tool_bar_icon_size(Heap, w, s)' = tool_bar_icon_size(Heap, w, s)
                            /\ (s = "floating") # (last'.area = "floating") =>
                                  tool_bar_style(Heap, w, s)' = tool_bar_style(Heap, w, s)
                /\ sized =>
                      /\ tool_bar_icon_size(Heap', w, last'.area) = last'.target
                      /\ \A s \in WidgetState :
                            /\ tool_bar_style(Heap, w, s)' = tool_bar_style(Heap, w, s)
                            /\ (s = "floating") # (last'.area = "floating") =>
                                  tool_bar_icon_size(Heap, w, s)' =
                                      tool_bar_icon_size(Heap, w, s)
                /\ ~styled /\ ~sized =>
                      \A s \in WidgetState :
                          /\ tool_bar_style(Heap, w, s)' = tool_bar_style(Heap, w, s)
                          /\ tool_bar_icon_size(Heap, w, s)' =
                                 tool_bar_icon_size(Heap, w, s)]_vars

\* set_tool_bar_style(style, hidden) has just changed the style that a dock
\* widget returns for docked, and its style for floating was set before
C21_Witness ==
    /\ last.op = "set_tool_bar_style"
    /\ last.area = "hidden"
    /\ count.style = 2
    /\ tool_bar_style(Heap, last.w, "docked") = last.result
    /\ last.result = "ToolButtonTextUnderIcon"
    /\ tool_bar_style(Heap, last.w, "floating") = "ToolButtonIconOnly"

\* the dock areas in the containers
AreasInContainers ==
    UNION {SeqToSet(dock_containers[c].dock_areas) : c \in SeqToSet(containers)}

\* the tab bar of the dock area a after insert_tab(index, tab of w): the
\* layout has taken the tab at the index
TabInserted(a, index, w) ==
    insert_tab([Heap EXCEPT !.areas[a].widgets = PyInsert(@, index, w)], a, index)

\* C22: insert_tab(index, tab) of a new tab at a position 0 .. count() of a
\* tab bar: for an index less than or equal to the current index the current
\* index goes up by one and current_tab() is the tab it was; for an index
\* greater than the current index the current index and current_tab() stay
\* as they are
C22_InsertTab ==
    \A a \in AreasInContainers :
    \A index \in 0..Len(dock_areas[a].widgets) :
    \A w \in DockWidgetNames \ SeqToSet(dock_areas[a].widgets) :
        /\ current_tab(TabInserted(a, index, w), a) = current_tab(Heap, a)
        /\ TabInserted(a, index, w).areas[a].tab_current_index =
               IF index <= dock_areas[a].tab_current_index
               THEN dock_areas[a].tab_current_index + 1
               ELSE dock_areas[a].tab_current_index

\* a tab bar with two tabs whose second tab is the current tab: a new tab
\* can go before the current tab, in its place and behind it
C22_Witness ==
    \E a \in AreasInContainers :
        /\ Len(dock_areas[a].widgets) = 2
        /\ dock_areas[a].tab_current_index = 1
        /\ current_tab(Heap, a) = dock_areas[a].widgets[2]
        /\ \E w \in DockWidgetNames \ SeqToSet(dock_areas[a].widgets) :
              /\ current_tab(TabInserted(a, 0, w), a) = dock_areas[a].widgets[2]
              /\ TabInserted(a, 1, w).areas[a].tab_current_index = 2
              /\ TabInserted(a, 2, w).areas[a].tab_current_index = 1

\* the containers the dragged floating widget of c can be dropped on: the
\* visible containers other than c whose rectangle contains the cursor
DropCandidates(c, under) ==
    {k \in SeqToSet(containers) \ {c} : ~dock_containers[k].hidden /\ k \in under}

\* what an overlay shows: whether it is shown, over which widget and with
\* which allowed areas
Shown(o) == <<o.hidden, o.target_widget, o.allowed_areas>>

\* the step is update_drop_overlays of the visible floating widget of c
\* with the cursor over the containers under and over the dock area at: the
\* drop container and what the overlays show are those of such a call,
\* whatever drop areas the cursor is over
DragStep(c, under, at) ==
    /\ count'.drag # count.drag
    /\ last'.target = c
    /\ ~dock_containers[c].hidden
    /\ under \subseteq SeqToSet(containers)
    /\ LET h == update_drop_overlays(Heap, c, under, at, "invalid", "invalid")
           top == h.ct[c].drop_container
       IN  /\ at \in {NoArea} \cup
                    (IF top = NoContainer THEN {}
                     ELSE SeqToSet(opened_dock_areas(Heap, top)))
           /\ dock_containers'[c].drop_container = top
           /\ Shown(container_overlay') = Shown(h.container_overlay)
           /\ Shown(dock_area_overlay') = Shown(h.dock_area_overlay)

\* the drop container that update_drop_overlays of c has chosen is not c, is
\* a visible container under the cursor in front of every other one, or
\* None with both overlays hidden if there is no such container; the
\* container overlay allows the outer areas for a target with more than one
\* visible dock area and all areas otherwise
DropContainerChosen(c, under) ==
    LET top == dock_containers'[c].drop_container
    IN  /\ top # c
        /\ IF DropCandidates(c, under) = {}
           THEN /\ top = NoContainer
                /\ container_overlay'.hidden
                /\ dock_area_overlay'.hidden
           ELSE /\ top \in DropCandidates(c, under)
                /\ \A o \in DropCandidates(c, under) \ {top} :
                      is_in_front_of(Heap, top, o)
                /\ ~container_overlay'.hidden
                /\ container_overlay'.allowed_areas =
                      IF visible_dock_area_count(Heap, top) > 1
                      THEN outer_dock_areas ELSE all_dock_areas

\* the claim of C23 as it stands: whenever there is a drop container, the
\* dock area overlay allows no area if the drop container has exactly one
\* visible dock area and all areas otherwise
C23_Original ==
    [][\A c \in FloatingIds :
        (count'.drag # count.drag /\ last'.target = c) =>
        \A under \in SUBSET ContainerIds, at \in AreaIds \cup {NoArea} :
            DragStep(c, under, at) =>
                /\ DropContainerChosen(c, under)
                /\ dock_containers'[c].drop_container # NoContainer =>
                      dock_area_overlay'.allowed_areas =
                          IF visible_dock_area_count(
                                 Heap, dock_containers'[c].drop_container) = 1
                          THEN no_area ELSE all_dock_areas]_vars

\* C23: update_drop_overlays of a visible floating widget never chooses the
\* widget's own container; it chooses a visible container whose rectangle
\* contains the cursor and that is in front of every other such container,
\* or None, with both overlays hidden, if there is none; the container
\* overlay then allows the outer areas if the drop container has more than
\* one visible dock area and all areas otherwise; if the cursor is over a
\* visible dock area of the drop container the dock area overlay is shown
\* and allows no area if the drop container has exactly one visible dock
\* area and all areas otherwise; if the cursor is over no dock area the dock
\* area overlay is hidden and allows what it allowed before
C23_DropOverlays ==
    [][\A c \in FloatingIds :
        (count'.drag # count.drag /\ last'.target = c) =>
        \A under \in SUBSET ContainerIds, at \in AreaIds \cup {NoArea} :
            DragStep(c, under, at) =>
                /\ DropContainerChosen(c, under)
                /\ dock_containers'[c].drop_container # NoContainer =>
                      IF at # NoArea
                      THEN /\ ~dock_area_overlay'.hidden
                           /\ dock_area_overlay'.allowed_areas =
                                 IF visible_dock_area_count(
                                        Heap, dock_containers'[c].drop_container) = 1
                                 THEN no_area ELSE all_dock_areas
                      ELSE /\ dock_area_overlay'.hidden
                           /\ dock_area_overlay'.allowed_areas =
                                 dock_area_overlay.allowed_areas]_vars

\* a floating widget was dragged over another floating widget, which is the
\* drop container, with the cursor over its only dock area: the container
\* overlay allows all areas and the dock area overlay, shown over the dock
\* area, allows none
C23_Witness ==
    /\ last.op = "update_drop_overlays"
    /\ ~dock_containers[last.target].hidden
    /\ dock_containers[last.target].drop_container \in Floating \ {last.target}
    /\ ~dock_containers[Manager].hidden
    /\ container_overlay.target_widget = dock_containers[last.target].drop_container
    /\ ~container_overlay.hidden
    /\ container_overlay.allowed_areas = all_dock_areas
    /\ ~dock_area_overlay.hidden
    /\ dock_area_overlay.allowed_areas = no_area
    /\ InSeq(dock_containers[dock_containers[last.target].drop_container].dock_areas,
             dock_area_overlay.target_widget)
====
